---------------------------- MODULE Spec2Model ----------------------------
(***************************************************************************)
(* A model of the offline-aware data-access layer of the song-book app:   *)
(*   - OfflineProvider   (src/unnamed/part_008, lines 385-628)            *)
(*   - useSupabase       (src/unnamed/part_003, lines 1-571)              *)
(*   - AuthProvider      (src/contexts/AuthContext.tsx, lines 22-189)     *)
(*   - SongsScreen       (src/unnamed/part_007), the client-side search   *)
(*                                                                         *)
(* React keeps every useState value in a store; a function created by a   *)
(* render closes over the values of THAT render.  The store variables     *)
(* (user, cachedSongs, ...) are what the setters write; rd is the set of  *)
(* values the latest render saw, which a call made now closes over; an    *)
(* asynchronous call in flight keeps the closure it started with (cl).    *)
(* AsyncStorage serves its requests in issue order, so a write takes      *)
(* effect when it is issued and its promise settles in a later step.      *)
(***************************************************************************)
EXTENDS Integers, Sequences, FiniteSets, TLC

\* ------------------------------------------------------------------ bounds
MaxOps == 4        \* asynchronous calls in flight at once
MaxCacheCalls == 2 \* calls started in one behaviour of SpecCache
MaxExpiryCalls == 2 \* calls started in one behaviour of SpecExpiry
MaxScopedCalls == 1 \* calls started in one behaviour of SpecUserScoped
MaxFavCalls == 3    \* calls started in one behaviour of SpecFavourites
MaxSyncCalls == 1   \* calls started in one behaviour of SpecSync
MaxSearchCalls == 1 \* calls started in one behaviour of SpecSearch
MaxDays == 2       \* the clock runs to MaxDays freshness windows (and a bit)
MaxInserts == 2    \* rows the backend inserts in one behaviour
MaxQueryLen == 1   \* length of the enumerated search queries
MaxEvents == 2     \* session-change notifications waiting for the listener
MaxAuthCalls == 1  \* calls and backend events in one behaviour of SpecAuth
MaxStoreCalls == 2 \* calls started in one behaviour of SpecStore
MaxRemoteCalls == 1 \* calls started in one behaviour of SpecRemote
MaxSignOutCalls == 2 \* calls started in one behaviour of SpecSignOut
MaxTableCalls == 2  \* calls started in one behaviour of SpecTables
MaxOwnerCalls == 2  \* calls started in one behaviour of SpecOwnership
MaxOwnerFlight == 1 \* calls of SpecOwnership in flight at once

\* --------------------------------------------------------------- constants
cacheTimeout == 24 * 60 * 60 * 1000

NoUser == "none"
Users == {"u1", "u2"}
Null == "<null>"
NoTime == 0 - 1
NoUserFound == "No user found"

Range(s) == {s[i] : i \in 1..Len(s)}

\* a session of the backend: the identity it belongs to and its access token
NoSession == [user |-> NoUser, token |-> 0]
SessionOf(u) == IF u = NoUser THEN NoSession ELSE [user |-> u, token |-> 1]

\* AppSettings (Config.ts) and DEFAULT_SETTINGS, lines 424-428
DefaultFontSize == 16
FontSizeFloor == 12
FontSizeCeiling == 32
SettingsKeys == {"theme", "fontSize", "autoSync"}
DEFAULT_SETTINGS == [theme |-> "light", fontSize |-> DefaultFontSize, autoSync |-> TRUE]

\* ensureValidSettings, lines 431-435: an empty theme and a font size of 0
\* are falsy
ensureValidSettings(st) ==
  [theme |-> IF st.theme = "" THEN "light" ELSE st.theme,
   fontSize |-> LET size == IF st.fontSize = 0 THEN DefaultFontSize ELSE st.fontSize
                IN IF size > FontSizeFloor THEN size ELSE FontSizeFloor,
   autoSync |-> st.autoSync]

\* ------------------------------------------------------------------- rows
\* Config.ts: Song {id, song_number, title, ...}; a title is its characters.
Song(i, n, t) == [id |-> i, song_number |-> n, title |-> t]
\* Config.ts: Favourite {id, user_id, song_id}
Favourite(i, u, s) == [id |-> i, user_id |-> u, song_id |-> s]
\* Config.ts: Folder {id, user_id, name}
Folder(i, u, n) == [id |-> i, user_id |-> u, name |-> n]
\* Config.ts: SongFolder {id, song_id, folder_id}
SongFolder(i, s, f) == [id |-> i, song_id |-> s, folder_id |-> f]

AmazingGrace == <<"A","m","a","z","i","n","g"," ","G","r","a","c","e">>
HolyNight == <<"H","o","l","y"," ","N","i","g","h","t">>
BeStill == <<"B","e"," ","S","t","i","l","l">>

\* The songs table (setup.sql seeds songs 1.. with unique song_number); the
\* numbers 1, 12 and 2 are those of the spec's example plus a non-matching one.
SongsTable == {Song(1, 1, AmazingGrace), Song(2, 12, HolyNight), Song(3, 2, BeStill)}
SongIds == {1, 2}
FolderNames == {"A", "B"}
NameRank == [n \in FolderNames |-> IF n = "A" THEN 1 ELSE 2]

\* select ... order('song_number', ascending)
RECURSIVE SongsByNumber(_)
SongsByNumber(S) ==
  IF S = {} THEN <<>>
  ELSE LET m == CHOOSE x \in S : \A y \in S : x.song_number <= y.song_number
       IN <<m>> \o SongsByNumber(S \ {m})

\* select without an order: rows in insertion (id) order
RECURSIVE RowsById(_)
RowsById(S) ==
  IF S = {} THEN <<>>
  ELSE LET m == CHOOSE x \in S : \A y \in S : x.id <= y.id
       IN <<m>> \o RowsById(S \ {m})

\* select ... order('name')
RECURSIVE FoldersByName(_)
FoldersByName(S) ==
  IF S = {} THEN <<>>
  ELSE LET m == CHOOSE x \in S : \A y \in S :
                  \/ NameRank[x.name] < NameRank[y.name]
                  \/ NameRank[x.name] = NameRank[y.name] /\ x.id <= y.id
       IN <<m>> \o FoldersByName(S \ {m})

\* ApiResponse<T>.data: null, a list, one row or a boolean
DNull == [tag |-> "null", v |-> <<>>]
DList(l) == [tag |-> "list", v |-> l]
DRow(r) == [tag |-> "row", v |-> <<r>>]
DBool(b) == [tag |-> "bool", v |-> IF b THEN <<1>> ELSE <<0>>]
\* Promise<number> of getFolderSongCount
DNum(n) == [tag |-> "number", v |-> <<n>>]
Result(d, e) == [data |-> d, error |-> e]
\* a call whose promise was rejected with e instead of being resolved
DThrown == [tag |-> "thrown", v |-> <<>>]
Thrown(e) == [data |-> DThrown, error |-> e]

\* ------------------------------------------------------------------ state
VARIABLES
  user,              \* AuthProvider: useState user (its id, or NoUser)
  session,           \* AuthProvider: useState session
  isLoading,         \* AuthProvider: useState isLoading
  events,            \* session-change notifications the listener has not run for yet
  isAppReady,        \* AppWrapper: useState isAppReady
  settings,          \* OfflineProvider: useState settings
  cachedSongs,       \* OfflineProvider: useState lists
  cachedFavourites,
  cachedFolders,
  lastSync,          \* OfflineProvider: useState lastSync (ms, or NoTime)
  loading,           \* useSupabase: useState loading
  error,             \* useSupabase: useState error
  storage,           \* AsyncStorage: the CACHE_DATA, LAST_SYNC and SETTINGS items
  now,               \* Date.now()
  remote,            \* the backend tables favourites and folders
  searchQuery,       \* SongsScreen: useState searchQuery (its characters)
  allSongs,          \* SongsScreen: useState allSongs
  ops,               \* the asynchronous calls in flight, one per slot
  ret,               \* what the last call that returned to the UI returned
  budget,            \* number of calls the behaviour may still start
  g                  \* history of the behaviour, read by the properties only

authVars == <<user>>
holderVars == <<session, isLoading, events, isAppReady>>
cacheVars == <<cachedSongs, cachedFavourites, cachedFolders, lastSync>>
hookVars == <<loading, error>>
screenVars == <<searchQuery, allSongs>>
vars == <<user, session, isLoading, events, isAppReady, settings, cachedSongs, cachedFavourites, cachedFolders, lastSync,
          loading, error, storage, now, remote, searchQuery, allSongs, ops, ret, budget, g>>

Fields == {"songs", "favourites", "folders"}

\* what a function created by the current render closes over
Closure ==
  [user |-> user, songs |-> cachedSongs, favourites |-> cachedFavourites,
   folders |-> cachedFolders]

Lists == [songs |-> cachedSongs, favourites |-> cachedFavourites, folders |-> cachedFolders]

EmptyLists == [songs |-> <<>>, favourites |-> <<>>, folders |-> <<>>]

\* AsyncStorage with no item stored; parses tells whether the CACHE_DATA item
\* is text that JSON.parse accepts
EmptyStorage ==
  [hasData |-> FALSE, data |-> EmptyLists, lastUpdated |-> NoTime, parses |-> TRUE,
   hasSync |-> FALSE, lastSync |-> NoTime,
   hasSettings |-> FALSE, settings |-> DEFAULT_SETTINGS]

Idle ==
  [kind |-> "idle", pc |-> "", id |-> 0, cl |-> [user |-> NoUser] @@ EmptyLists,
   arg |-> 0, out |-> "", val |-> DNull, parent |-> 0]

Slots == 1..MaxOps
FreeSlots == {i \in Slots : ops[i].kind = "idle"}
FreeSlot == CHOOSE i \in FreeSlots : \A j \in FreeSlots : i <= j

\* --------------------------------------------------------- OfflineProvider
StorageOutcomes == {"ok", "failData", "failSync", "failBoth"}
StorageError == "storage error"

\* a provider whose catch blocks log the error and return
StorageWriteResultSwallowed(out) == Result(DNull, Null)

\* updateCache 510-514, clearCache 525-532, updateSettings 552-555: the call
\* resolves to nothing, or its catch throws the error of the storage again
StorageWriteResult(out) ==
  IF out = "ok" THEN Result(DNull, Null) ELSE Thrown(StorageError)

\* updateCache with setters that ran for all three fields, an omitted one
\* being reset to the empty list
NewListsResetOmitted(data) ==
  [f \in Fields |-> IF f \in data.has THEN data[f] ELSE <<>>]

\* updateCache, lines 492-494: the setters replace the provided lists only
NewLists(data) ==
  [f \in Fields |-> IF f \in data.has THEN data[f] ELSE Lists[f]]

\* updateCache, lines 497-502: the snapshot to persist takes the lists that
\* were not provided from the closure of the render that created updateCache
CacheDataOf(cl, data) ==
  [f \in Fields |-> IF f \in data.has THEN data[f] ELSE cl[f]]

\* updateCache, lines 505-508: the two setItem requests; out tells which fail
StorageAfterWrite(cl, data, out) ==
  [hasData |-> storage.hasData \/ out \in {"ok", "failSync"},
   data |-> IF out \in {"ok", "failSync"} THEN CacheDataOf(cl, data) ELSE storage.data,
   lastUpdated |-> IF out \in {"ok", "failSync"} THEN now ELSE storage.lastUpdated,
   parses |-> storage.parses \/ out \in {"ok", "failSync"},
   hasSync |-> storage.hasSync \/ out \in {"ok", "failData"},
   lastSync |-> IF out \in {"ok", "failData"} THEN now ELSE storage.lastSync,
   hasSettings |-> storage.hasSettings, settings |-> storage.settings]

\* updateCache up to its await (lines 487-508), with the history it leaves
updateCache(cl, data, out) ==
  /\ cachedSongs' = NewLists(data).songs
  /\ cachedFavourites' = NewLists(data).favourites
  /\ cachedFolders' = NewLists(data).folders
  /\ storage' = StorageAfterWrite(cl, data, out)
  /\ g' = [g EXCEPT !.nUpd = @ + 1,
                    !.upd = [has |-> data.has, out |-> out,
                             lists |-> [f \in Fields |-> IF f \in data.has THEN data[f] ELSE <<>>]],
                    !.expect = [f \in Fields |-> IF f \in data.has THEN data[f] ELSE @[f]]]

\* isCacheExpired with a window that has run out when its last millisecond
\* is reached
isCacheExpiredAtTimeout ==
  IF lastSync = NoTime THEN TRUE ELSE now - lastSync >= cacheTimeout

\* isCacheExpired, lines 570-574
isCacheExpired ==
  IF lastSync = NoTime THEN TRUE ELSE now - lastSync > cacheTimeout

\* getSongs, line 577
getSongs == cachedSongs

\* getFavourites without the filter on the owner of a row
getFavouritesUnfiltered ==
  IF user = NoUser THEN <<>> ELSE cachedFavourites

\* getFavourites, lines 578-581
getFavourites ==
  IF user = NoUser THEN <<>>
  ELSE SelectSeq(cachedFavourites, LAMBDA fav : fav.user_id = user)

\* getFolders, lines 582-585
getFolders ==
  IF user = NoUser THEN <<>>
  ELSE SelectSeq(cachedFolders, LAMBDA folder : folder.user_id = user)

\* what a call still reads of its closure once it only awaits storage
AfterWrites(cl) == [user |-> cl.user] @@ EmptyLists

\* a new call in flight
NewOp(k, p, cl, a, o, v, par) ==
  [kind |-> k, pc |-> p, id |-> budget, cl |-> cl, arg |-> a, out |-> o,
   val |-> v, parent |-> par]

\* what a call hands to the UI when it returns
Returned(op, res) ==
  [id |-> op.id, op |-> op.kind, arg |-> op.arg, user |-> op.cl.user,
   data |-> res.data, error |-> res.error]

\* the OfflineProvider calls that return to the caller of the context
Partial(has, l) == [has |-> has, songs |-> l.songs, favourites |-> l.favourites, folders |-> l.folders]

\* a consumer of the context calls updateCache(data)
UpdateCacheCall(data, out) ==
  /\ budget > 0
  /\ FreeSlots # {}
  /\ updateCache(Closure, data, out)
  /\ ops' = [ops EXCEPT ![FreeSlot] = NewOp("updateCache", "storage", AfterWrites(Closure), 0, out, DNull, 0)]
  /\ budget' = budget - 1
  /\ UNCHANGED <<holderVars, settings, searchQuery, allSongs, user, lastSync, loading, error, now, remote, ret>>

\* updateCache after its await (lines 510-514) when a consumer called it
UpdateCacheSettled(i) ==
  /\ ops[i].kind = "updateCache"
  /\ ops[i].pc = "storage"
  /\ IF ops[i].out = "ok"
       THEN /\ lastSync' = now
            /\ ret' = Returned(ops[i], StorageWriteResult(ops[i].out))
            /\ g' = [g EXCEPT !.lastEv = "update", !.evAt = now]
       ELSE /\ ret' = Returned(ops[i], StorageWriteResult(ops[i].out))
            /\ UNCHANGED <<lastSync, g>>
  /\ ops' = [ops EXCEPT ![i] = Idle]
  /\ UNCHANGED <<holderVars, settings, searchQuery, allSongs, user, cachedSongs, cachedFavourites, cachedFolders, loading, error,
                 storage, now, remote, budget>>

\* a multiRemove that removes every item of the app
StorageAfterClearAll == EmptyStorage

\* clearCache, lines 520-523: multiRemove of the CACHE_DATA and LAST_SYNC items
StorageAfterClear ==
  [storage EXCEPT !.hasData = FALSE, !.data = EmptyLists, !.lastUpdated = NoTime,
                  !.parses = TRUE, !.hasSync = FALSE, !.lastSync = NoTime]

\* clearCache up to its await (lines 518-523): multiRemove of both items
ClearCacheCall(out) ==
  /\ budget > 0
  /\ FreeSlots # {}
  /\ storage' = IF out = "ok" THEN StorageAfterClear ELSE storage
  /\ ops' = [ops EXCEPT ![FreeSlot] = NewOp("clearCache", "storage", AfterWrites(Closure), 0, out, DNull, 0)]
  /\ budget' = budget - 1
  /\ g' = g
  /\ UNCHANGED <<holderVars, settings, searchQuery, allSongs, user, cachedSongs, cachedFavourites, cachedFolders, lastSync,
                 loading, error, now, remote, ret>>

\* clearCache after its await (lines 525-532)
ClearCacheSettled(i) ==
  /\ ops[i].kind = "clearCache"
  /\ ops[i].pc = "storage"
  /\ IF ops[i].out = "ok"
       THEN /\ cachedSongs' = <<>>
            /\ cachedFavourites' = <<>>
            /\ cachedFolders' = <<>>
            /\ lastSync' = NoTime
            /\ ret' = Returned(ops[i], StorageWriteResult(ops[i].out))
            /\ g' = [g EXCEPT !.lastEv = "clear", !.evAt = now, !.expect = EmptyLists]
       ELSE /\ ret' = Returned(ops[i], StorageWriteResult(ops[i].out))
            /\ UNCHANGED <<cachedSongs, cachedFavourites, cachedFolders, lastSync, g>>
  /\ ops' = [ops EXCEPT ![i] = Idle]
  /\ UNCHANGED <<holderVars, settings, searchQuery, allSongs, user, loading, error, storage, now, remote, budget>>

\* updateSettings, lines 547-551: newSettings is a function on the keys it
\* provides; the setter runs and the SETTINGS item is written (unless the
\* write fails)
updateSettings(kind, newSettings, out) ==
  /\ budget > 0
  /\ FreeSlots # {}
  /\ LET updatedSettings == newSettings @@ settings IN
       /\ settings' = updatedSettings
       /\ storage' = IF out = "ok"
                       THEN [storage EXCEPT !.hasSettings = TRUE, !.settings = updatedSettings]
                       ELSE storage
  /\ ops' = [ops EXCEPT ![FreeSlot] = NewOp(kind, "storage", AfterWrites(Closure), 0, out, DNull, 0)]
  /\ budget' = budget - 1
  /\ UNCHANGED <<holderVars, searchQuery, allSongs, user, cachedSongs, cachedFavourites,
                 cachedFolders, lastSync, loading, error, now, remote, ret, g>>

\* toggleTheme, lines 559-562
toggleTheme(out) ==
  updateSettings("toggleTheme", [theme |-> IF settings.theme = "light" THEN "dark" ELSE "light"], out)

\* Math.max(12, Math.min(32, size)), line 566
ClampFontSize(size) ==
  LET capped == IF size < FontSizeCeiling THEN size ELSE FontSizeCeiling
  IN IF capped > FontSizeFloor THEN capped ELSE FontSizeFloor

\* updateFontSize, lines 565-567
updateFontSize(size, out) ==
  updateSettings("updateFontSize", [fontSize |-> ClampFontSize(size)], out)

SettingsCalls == {"updateSettings", "toggleTheme", "updateFontSize"}

\* updateSettings after its await (lines 551-555); toggleTheme and
\* updateFontSize await it and pass its rejection on
UpdateSettingsSettled(i) ==
  /\ ops[i].kind \in SettingsCalls
  /\ ops[i].pc = "storage"
  /\ ret' = Returned(ops[i], StorageWriteResult(ops[i].out))
  /\ ops' = [ops EXCEPT ![i] = Idle]
  /\ UNCHANGED <<holderVars, settings, searchQuery, allSongs, user, cachedSongs,
                 cachedFavourites, cachedFolders, lastSync, loading, error, storage, now,
                 remote, budget, g>>

\* loadCachedData up to its await (lines 453-459): the getItem requests
LoadOp == NewOp("load", "storage", AfterWrites(Closure), 0, "ok", storage, 0)

\* loadCachedData after its await (lines 461-480); the items were read when
\* the requests were issued
LoadSettled(i) ==
  /\ ops[i].kind = "load"
  /\ ops[i].pc = "storage"
  /\ LET read == ops[i].val IN
       IF read.hasData /\ ~read.parses
         THEN \* JSON.parse (line 463) threw: the catch of lines 481-483
              UNCHANGED <<cachedSongs, cachedFavourites, cachedFolders, lastSync, settings, g>>
         ELSE /\ cachedSongs' = IF read.hasData THEN read.data.songs ELSE cachedSongs
              /\ cachedFavourites' = IF read.hasData THEN read.data.favourites ELSE cachedFavourites
              /\ cachedFolders' = IF read.hasData THEN read.data.folders ELSE cachedFolders
              /\ settings' = IF read.hasSettings
                                THEN ensureValidSettings(read.settings @@ DEFAULT_SETTINGS)
                                ELSE ensureValidSettings(DEFAULT_SETTINGS)
              /\ lastSync' = IF read.hasSync THEN read.lastSync ELSE lastSync
              /\ g' = [g EXCEPT !.lastEv = IF read.hasSync THEN "load" ELSE @,
                                !.evAt = IF read.hasSync THEN now ELSE @,
                                !.expect = IF read.hasData THEN read.data ELSE @]
  /\ ops' = [ops EXCEPT ![i] = Idle]
  /\ UNCHANGED <<holderVars, searchQuery, allSongs, user, loading, error, storage, now, remote, ret, budget>>

\* the reported session is taken over but the holder goes on authenticating
SetSessionKeepLoading(s) ==
  /\ session' = s
  /\ user' = s.user
  /\ isLoading' = isLoading

\* AuthProvider, lines 34-36 and 44-46: the reported session is taken over
SetSession(s) ==
  /\ session' = s
  /\ user' = s.user
  /\ isLoading' = FALSE

\* AuthProvider, lines 42-47: the session-change listener sets the user; the
\* render that follows runs the effect of OfflineProvider lines 595-597
AuthStateChange(u) ==
  /\ u # user
  /\ budget > 0
  /\ FreeSlots # {}
  /\ SetSession(SessionOf(u))
  /\ ops' = [ops EXCEPT ![FreeSlot] = [LoadOp EXCEPT !.cl.user = u]]
  /\ budget' = budget - 1
  /\ UNCHANGED <<events, isAppReady, settings, searchQuery, allSongs, cachedSongs, cachedFavourites, cachedFolders,
                 lastSync, loading, error, storage, now, remote, ret, g>>

\* ------------------------------------------------------------ AuthProvider
\* _event of a notification
AuthEvents == {"INITIAL_SESSION", "SIGNED_IN", "SIGNED_OUT", "TOKEN_REFRESHED"}
Notification(e, s) == [event |-> e, session |-> s]

\* error.message of the backend's answer, or of the exception caught
AuthErrorMessage(r) ==
  IF r = "error" THEN "Invalid login credentials" ELSE "Network request failed"

\* the effect of OfflineProvider lines 595-597 after setUser: it runs when the
\* user value of the new render is not the one of the previous render.  The
\* user object of a session for the same identity may or may not be the same
\* object, so the effect may (reload) or may not run then.
ReloadOnUser(u, reload) ==
  IF u # user \/ (u # NoUser /\ reload)
    THEN /\ FreeSlots # {}
         /\ ops' = [ops EXCEPT ![FreeSlot] = [LoadOp EXCEPT !.cl.user = u]]
    ELSE ops' = ops

\* lines 32-37: the initial getSession resolved with the persisted session, or
\* it was rejected and the .then callback never runs
getSessionResolved(i, r, reload) ==
  /\ ops[i].kind = "getSession"
  /\ r \in {"ok", "throw"}
  /\ IF r = "ok"
       THEN /\ SetSession(ops[i].val)
            /\ IF ops[i].val.user # user \/ (ops[i].val.user # NoUser /\ reload)
                 THEN ops' = [ops EXCEPT ![i] = [LoadOp EXCEPT !.cl.user = ops[i].val.user]]
                 ELSE ops' = [ops EXCEPT ![i] = Idle]
       ELSE /\ ~reload
            /\ ops' = [ops EXCEPT ![i] = Idle]
            /\ UNCHANGED <<user, session, isLoading>>
  /\ ret' = Returned(ops[i], IF r = "ok" THEN Result(DNull, Null)
                                         ELSE Thrown(AuthErrorMessage(r)))
  /\ UNCHANGED <<events, isAppReady, settings, searchQuery, allSongs, cachedSongs, cachedFavourites,
                 cachedFolders, lastSync, loading, error, storage, now, remote, budget, g>>

\* a listener that leaves the state alone while a call of the holder is in progress
onAuthStateChangeWhenIdle(reload) ==
  /\ events # <<>>
  /\ events' = Tail(events)
  /\ IF \E i \in Slots : ops[i].kind \in {"signUp", "signIn", "signOut", "resetPassword"}
       THEN ~reload /\ UNCHANGED <<user, session, isLoading, ops>>
       ELSE SetSession(Head(events).session) /\ ReloadOnUser(Head(events).session.user, reload)
  /\ UNCHANGED <<isAppReady, settings, searchQuery, allSongs, cachedSongs, cachedFavourites,
                 cachedFolders, lastSync, loading, error, storage, now, remote, ret, budget, g>>

\* lines 42-47: the listener runs for the oldest notification not yet delivered
onAuthStateChange(reload) ==
  /\ events # <<>>
  /\ events' = Tail(events)
  /\ SetSession(Head(events).session)
  /\ ReloadOnUser(Head(events).session.user, reload)
  /\ UNCHANGED <<isAppReady, settings, searchQuery, allSongs, cachedSongs, cachedFavourites,
                 cachedFolders, lastSync, loading, error, storage, now, remote, ret, budget, g>>

\* the backend notifies of a change nobody asked this holder for: a refreshed
\* token, a sign-out elsewhere
BackendEvent(e) ==
  /\ budget > 0
  /\ Len(events) < MaxEvents
  /\ events' = Append(events, e)
  /\ budget' = budget - 1
  /\ UNCHANGED <<user, session, isLoading, isAppReady, settings, searchQuery, allSongs, cachedSongs,
                 cachedFavourites, cachedFolders, lastSync, loading, error, storage, now,
                 remote, ops, ret, g>>

\* a call of the holder up to its first await: the request is sent
StartAuth(kind, arg) ==
  /\ budget > 0
  /\ FreeSlots # {}
  /\ ops' = [ops EXCEPT ![FreeSlot] = NewOp(kind, "remote", AfterWrites(Closure), arg, "", DNull, 0)]
  /\ budget' = budget - 1
  /\ UNCHANGED <<holderVars, settings, searchQuery, allSongs, user, cachedSongs,
                 cachedFavourites, cachedFolders, lastSync, loading, error, storage, now,
                 remote, ret, g>>

\* the call in slot i resolves (or is rejected) with res; the holder's state
\* is not touched
AuthReturn(i, res) ==
  /\ ret' = Returned(ops[i], res)
  /\ ops' = [ops EXCEPT ![i] = Idle]
  /\ UNCHANGED <<holderVars, settings, searchQuery, allSongs, user, cachedSongs,
                 cachedFavourites, cachedFolders, lastSync, loading, error, storage, now,
                 remote, budget, g>>

\* the backend did what was asked and notifies the listeners; the call goes on
\* to pc
AuthNotify(i, e, pc) ==
  /\ Len(events) < MaxEvents
  /\ events' = Append(events, e)
  /\ ops' = [ops EXCEPT ![i].pc = pc, ![i].out = "ok"]
  /\ UNCHANGED <<user, session, isLoading, isAppReady, settings, searchQuery, allSongs, cachedSongs,
                 cachedFavourites, cachedFolders, lastSync, loading, error, storage, now,
                 remote, ret, budget, g>>

\* a holder that reports every request as a success
AuthResultAlwaysNull(r) == Result(DNull, Null)

\* {error} of signUp, signIn and resetPassword: lines 64-67 and 90-94, 106-109
\* and 134-138, 165-175
AuthResult(r) ==
  IF r = "ok" THEN Result(DNull, Null) ELSE Result(DNull, AuthErrorMessage(r))

\* signOut, lines 145-154: it resolves to nothing, or throws the error
signOutResult(r) ==
  IF r = "ok" THEN Result(DNull, Null) ELSE Thrown(AuthErrorMessage(r))

\* signIn, lines 98-104; u is the identity the credentials belong to
signIn(u) == StartAuth("signIn", u)

\* signIn, lines 106-124: the answer of signInWithPassword
signInResponse(i, r) ==
  /\ ops[i].kind = "signIn"
  /\ ops[i].pc = "remote"
  /\ IF r = "ok"
       THEN AuthNotify(i, Notification("SIGNED_IN", SessionOf(ops[i].arg)), "profile")
       ELSE AuthReturn(i, AuthResult(r))

\* signIn, lines 126-134, and signUp, lines 82-90: whatever the request for
\* the profile row answered, the call returns {error: null}
ProfileResponse(i, r) ==
  /\ ops[i].kind \in {"signIn", "signUp"}
  /\ ops[i].pc = "profile"
  /\ AuthReturn(i, AuthResult("ok"))

\* signUp, lines 56-62
signUp(u) == StartAuth("signUp", u)

\* signUp, lines 64-90: a confirmed user comes with a session and gets a
\* profile row
signUpResponse(i, r, confirmed) ==
  /\ ops[i].kind = "signUp"
  /\ ops[i].pc = "remote"
  /\ IF r = "ok" /\ confirmed
       THEN AuthNotify(i, Notification("SIGNED_IN", SessionOf(ops[i].arg)), "profile")
       ELSE ~confirmed /\ AuthReturn(i, AuthResult(r))

\* signOut, lines 142-145
signOut == StartAuth("signOut", "")

\* signOut, lines 146-154
signOutResponse(i, r) ==
  /\ ops[i].kind = "signOut"
  /\ ops[i].pc = "remote"
  /\ IF r = "ok"
       THEN AuthNotify(i, Notification("SIGNED_OUT", NoSession), "done")
       ELSE AuthReturn(i, signOutResult(r))

\* signOut, line 150 and the end of the function
signOutDone(i) ==
  /\ ops[i].kind = "signOut"
  /\ ops[i].pc = "done"
  /\ AuthReturn(i, signOutResult("ok"))

\* resetPassword, lines 158-163
resetPassword(u) == StartAuth("resetPassword", u)

\* resetPassword, lines 165-175
resetPasswordResponse(i, r) ==
  /\ ops[i].kind = "resetPassword"
  /\ ops[i].pc = "remote"
  /\ AuthReturn(i, AuthResult(r))

\* the wall clock advances
Tick(d) ==
  /\ now + d <= MaxDays * (cacheTimeout + 1)
  /\ now' = now + d
  /\ UNCHANGED <<holderVars, settings, searchQuery, allSongs, user, cachedSongs, cachedFavourites, cachedFolders, lastSync, loading,
                 error, storage, remote, ops, ret, budget, g>>

\* ------------------------------------------------------------- useSupabase
RemoteOutcomes == {"ok", "error", "throw"}
DuplicateKey == "duplicate key value violates unique constraint"
NoRows == "JSON object requested, multiple (or no) rows returned"
Pending == Result(DNull, "<pending>")

\* supabaseError.message, or the message of the exception caught
ErrorMessage(r) == IF r = "error" THEN "remote error" ELSE "Network request failed"

\* a parent call (syncAllData, a folder mutation) takes its child's result
ChildReturned(parentOp, kind, res) ==
  IF parentOp.kind = "syncAllData"
    THEN [parentOp EXCEPT !.val = [@ EXCEPT ![kind] = res]]
    ELSE IF parentOp.kind = "loadSongs"
      THEN [parentOp EXCEPT !.pc = "resume", !.val = res]
      ELSE [parentOp EXCEPT !.pc = "resume"]

\* history: what every addFavourite call returned
LogReturn(h, op, res) ==
  IF op.kind = "addFavourite"
    THEN [h EXCEPT !.addRets = @ \cup {[user |-> op.cl.user, song |-> op.arg,
                                         data |-> res.data, error |-> res.error]}]
    ELSE h

\* history: the last request to the backend that failed, and what the call
\* that made it returned
LogFailure(h, op, res) ==
  [LogReturn(h, op, res) EXCEPT !.failed = [id |-> op.id, kind |-> op.kind,
                                            data |-> res.data, error |-> res.error]]

\* the call in slot i returns res through its finally { setLoading(false) }
Finish(i, res) ==
  /\ loading' = FALSE
  /\ IF ops[i].parent = 0
       THEN /\ ret' = Returned(ops[i], res)
            /\ ops' = [ops EXCEPT ![i] = Idle]
       ELSE /\ ret' = ret
            /\ ops' = [ops EXCEPT ![i] = Idle,
                                  ![ops[i].parent] = ChildReturned(@, ops[i].kind, res)]

\* a call returns without awaiting anything and without touching state
ReturnAtOnce(kind, arg, res) ==
  /\ budget > 0
  /\ ret' = [id |-> budget, op |-> kind, arg |-> arg, user |-> user,
             data |-> res.data, error |-> res.error]
  /\ budget' = budget - 1
  /\ g' = LogReturn(g, [kind |-> kind, arg |-> arg, cl |-> Closure], res)
  /\ UNCHANGED <<holderVars, settings, searchQuery, allSongs, user, cachedSongs, cachedFavourites, cachedFolders, lastSync, loading,
                 error, storage, now, remote, ops>>

\* setLoading(true); setError(null); then the request to the backend is sent
StartRemote(kind, arg) ==
  /\ budget > 0
  /\ FreeSlots # {}
  /\ loading' = TRUE
  /\ error' = Null
  /\ ops' = [ops EXCEPT ![FreeSlot] = NewOp(kind, "remote", Closure, arg, "", DNull, 0)]
  /\ budget' = budget - 1
  /\ UNCHANGED <<holderVars, settings, searchQuery, allSongs, user, cachedSongs, cachedFavourites, cachedFolders, lastSync, storage,
                 now, remote, ret>>

\* the backend answered with an error, or the request threw: setError(message)
\* and the call returns {data: failData, error: message}
FailRemote(i, r, failData) ==
  /\ r # "ok"
  /\ error' = ErrorMessage(r)
  /\ Finish(i, Result(failData, ErrorMessage(r)))
  /\ g' = LogFailure(g, ops[i], Result(failData, ErrorMessage(r)))
  /\ UNCHANGED <<holderVars, settings, searchQuery, allSongs, user, cachedSongs, cachedFavourites, cachedFolders, lastSync, storage,
                 now, remote, budget>>

\* the backend rejected the request with a message of its own
RejectRemote(i, msg, failData) ==
  /\ error' = msg
  /\ Finish(i, Result(failData, msg))
  /\ g' = LogFailure(g, ops[i], Result(failData, msg))
  /\ UNCHANGED <<holderVars, settings, searchQuery, allSongs, user, cachedSongs, cachedFavourites, cachedFolders, lastSync, storage,
                 now, remote, budget>>

\* the call in slot i got its rows and calls the updateCache of its closure
PushToCache(i, data, out, val) ==
  /\ updateCache(ops[i].cl, data, out)
  /\ ops' = [ops EXCEPT ![i].pc = "storage", ![i].out = out, ![i].val = val,
                        ![i].cl = AfterWrites(@)]
  /\ UNCHANGED <<holderVars, settings, searchQuery, allSongs, user, lastSync, loading, error, now, ret, budget>>

CachingKinds == {"fetchSongs", "fetchFavourites", "fetchFolders", "addFavourite", "removeFavourite"}

\* what a call returns when its try block threw
FailData(kind) == IF kind \in {"removeFavourite", "deleteFolder"} THEN DBool(FALSE) ELSE DNull

\* the updateCache awaited by the call in slot i settled: setLastSync(new Date())
\* and the call returns its rows, or updateCache threw and the call's catch
\* returns the error (e.g. lines 85-92)
CacheWriteSettled(i) ==
  /\ ops[i].kind \in CachingKinds
  /\ ops[i].pc = "storage"
  /\ IF ops[i].out = "ok"
       THEN /\ lastSync' = now
            /\ error' = error
            /\ Finish(i, Result(ops[i].val, Null))
            /\ g' = [LogReturn(g, ops[i], Result(ops[i].val, Null))
                       EXCEPT !.lastEv = "update", !.evAt = now]
       ELSE /\ lastSync' = lastSync
            /\ error' = StorageError
            /\ Finish(i, Result(FailData(ops[i].kind), StorageError))
            /\ g' = LogReturn(g, ops[i], Result(FailData(ops[i].kind), StorageError))
  /\ UNCHANGED <<holderVars, settings, searchQuery, allSongs, user, cachedSongs, cachedFavourites, cachedFolders, storage, now,
                 remote, budget>>

\* fetchSongs, lines 65-73
fetchSongs == StartRemote("fetchSongs", 0) /\ g' = g

\* fetchSongs, lines 75-92
fetchSongsResponse(i, r, out) ==
  /\ ops[i].kind = "fetchSongs"
  /\ ops[i].pc = "remote"
  /\ \/ /\ r = "ok"
        /\ LET data == SongsByNumber(remote.songs) IN
             PushToCache(i, Partial({"songs"}, [EmptyLists EXCEPT !.songs = data]), out,
                         DList(data))
        /\ remote' = remote
     \/ /\ out = "ok"
        /\ FailRemote(i, r, DNull)

\* fetchFavourites, lines 151-166
fetchFavourites ==
  IF user = NoUser
    THEN ReturnAtOnce("fetchFavourites", 0, Result(DList(<<>>), NoUserFound))
    ELSE StartRemote("fetchFavourites", 0) /\ g' = g

\* the rows of table the request of user u may see: .eq('user_id', u) and the
\* row-level policy auth.uid() = user_id
RowsOf(table, u) == {row \in table : row.user_id = u}

\* fetchFavourites, lines 168-185
fetchFavouritesResponse(i, r, out) ==
  /\ ops[i].kind = "fetchFavourites"
  /\ ops[i].pc = "remote"
  /\ \/ /\ r = "ok"
        /\ LET data == RowsById(RowsOf(remote.favourites, ops[i].cl.user)) IN
             PushToCache(i, Partial({"favourites"}, [EmptyLists EXCEPT !.favourites = data]),
                         out, DList(data))
        /\ remote' = remote
     \/ /\ out = "ok"
        /\ FailRemote(i, r, DNull)

\* addFavourite, line 198: cachedFavourites.find(...) over the closure's list
ExistingFav(favs, u, songId) ==
  SelectSeq(favs, LAMBDA fav : fav.song_id = songId /\ fav.user_id = u)

\* addFavourite, lines 188-211
addFavourite(songId) ==
  IF user = NoUser
    THEN ReturnAtOnce("addFavourite", songId, Result(DNull, NoUserFound))
    ELSE IF ExistingFav(cachedFavourites, user, songId) # <<>>
      THEN \* setLoading(true), setError(null), return existingFav, setLoading(false)
           /\ budget > 0
           /\ loading' = FALSE
           /\ error' = Null
           /\ ret' = [id |-> budget, op |-> "addFavourite", arg |-> songId, user |-> user,
                      data |-> DRow(Head(ExistingFav(cachedFavourites, user, songId))),
                      error |-> Null]
           /\ budget' = budget - 1
           /\ g' = LogReturn(g, [kind |-> "addFavourite", arg |-> songId, cl |-> Closure],
                             Result(DRow(Head(ExistingFav(cachedFavourites, user, songId))), Null))
           /\ UNCHANGED <<holderVars, settings, searchQuery, allSongs, user, cachedSongs, cachedFavourites, cachedFolders, lastSync,
                          storage, now, remote, ops>>
      ELSE /\ StartRemote("addFavourite", songId)
           /\ g' = [g EXCEPT !.inserts[<<user, songId>>] = @ + 1]

\* a favourites table that accepts any row
FavouriteTakenNever(u, songId) == FALSE

\* favourites_user_song_unique (setup.sql lines 32 and 199): the table holds a
\* row of this pair already
FavouriteTaken(u, songId) ==
  \E row \in remote.favourites : row.user_id = u /\ row.song_id = songId

\* addFavourite, lines 204-231: the insert is subject to favourites_user_song_unique
addFavouriteResponse(i, r, out) ==
  /\ ops[i].kind = "addFavourite"
  /\ ops[i].pc = "remote"
  /\ LET u == ops[i].cl.user
         songId == ops[i].arg
         data == Favourite(remote.nextFav, u, songId)
     IN \/ /\ r = "ok"
           /\ ~FavouriteTaken(u, songId)
           /\ remote.nextFav <= MaxInserts
           /\ remote' = [remote EXCEPT !.favourites = @ \cup {data}, !.nextFav = @ + 1]
           /\ PushToCache(i, Partial({"favourites"},
                             [EmptyLists EXCEPT !.favourites = Append(ops[i].cl.favourites, data)]),
                          out, DRow(data))
        \/ /\ r = "ok"
           /\ out = "ok"
           /\ FavouriteTaken(u, songId)
           /\ RejectRemote(i, DuplicateKey, DNull)
        \/ /\ out = "ok"
           /\ FailRemote(i, r, DNull)

\* removeFavourite, lines 234-247
removeFavourite(songId) ==
  IF user = NoUser
    THEN ReturnAtOnce("removeFavourite", songId, Result(DBool(FALSE), NoUserFound))
    ELSE StartRemote("removeFavourite", songId) /\ g' = g

\* removeFavourite, lines 249-269
removeFavouriteResponse(i, r, out) ==
  /\ ops[i].kind = "removeFavourite"
  /\ ops[i].pc = "remote"
  /\ LET u == ops[i].cl.user
         songId == ops[i].arg
     IN \/ /\ r = "ok"
           /\ remote' = [remote EXCEPT !.favourites =
                           {row \in @ : ~(row.user_id = u /\ row.song_id = songId)}]
           /\ PushToCache(i, Partial({"favourites"},
                             [EmptyLists EXCEPT !.favourites =
                                SelectSeq(ops[i].cl.favourites,
                                          LAMBDA fav : ~(fav.song_id = songId /\ fav.user_id = u))]),
                          out, DBool(TRUE))
        \/ /\ out = "ok"
           /\ FailRemote(i, r, DBool(FALSE))

\* isFavourite, lines 272-275
isFavourite(songId) ==
  IF user = NoUser THEN FALSE
  ELSE \E k \in 1..Len(cachedFavourites) :
         cachedFavourites[k].song_id = songId /\ cachedFavourites[k].user_id = user

\* fetchFolders without the check of lines 279-281
fetchFoldersUnguarded == StartRemote("fetchFolders", 0) /\ g' = g

\* fetchFolders, lines 278-291
fetchFolders ==
  IF user = NoUser
    THEN ReturnAtOnce("fetchFolders", 0, Result(DList(<<>>), NoUserFound))
    ELSE StartRemote("fetchFolders", 0) /\ g' = g

\* fetchFolders, lines 293-310
fetchFoldersResponse(i, r, out) ==
  /\ ops[i].kind = "fetchFolders"
  /\ ops[i].pc = "remote"
  /\ \/ /\ r = "ok"
        /\ LET data == FoldersByName(RowsOf(remote.folders, ops[i].cl.user)) IN
             PushToCache(i, Partial({"folders"}, [EmptyLists EXCEPT !.folders = data]),
                         out, DList(data))
        /\ remote' = remote
     \/ /\ out = "ok"
        /\ FailRemote(i, r, DNull)

\* name.trim() of the folder names a user may type
FolderNameInputs == {"A", "B", " A "}
TrimName(name) == IF name = " A " THEN "A" ELSE name

\* `await fetchFolders()` inside a folder mutation (lines 337, 372, 405): the
\* fetchFolders of the mutation's closure runs up to its request; the closure's
\* user is not null here
RefreshFolders(i, val) ==
  /\ FreeSlots # {}
  /\ loading' = TRUE
  /\ error' = Null
  /\ ops' = [ops EXCEPT ![i].pc = "child", ![i].val = val,
                        ![FreeSlot] = [NewOp("fetchFolders", "remote", ops[i].cl, 0, "", DNull, i)
                                         EXCEPT !.id = ops[i].id]]
  /\ UNCHANGED <<holderVars, settings, searchQuery, allSongs, user, cachedSongs, cachedFavourites, cachedFolders, lastSync, storage,
                 now, ret, budget, g>>

FolderMutations == {"createFolder", "updateFolder", "deleteFolder"}

\* the awaited fetchFolders returned (whatever it returned): the mutation
\* returns its own result (lines 339, 374, 407)
FolderMutationResume(i) ==
  /\ ops[i].kind \in FolderMutations
  /\ ops[i].pc = "resume"
  /\ Finish(i, Result(ops[i].val, Null))
  /\ UNCHANGED <<holderVars, settings, searchQuery, allSongs, user, cachedSongs, cachedFavourites, cachedFolders, lastSync, error,
                 storage, now, remote, budget, g>>

\* folders_user_name_unique (setup.sql line 42): another folder of user u has
\* this name already and the schema in use forbids it.  setup.sql holds two
\* schemas; that of lines 203-209 declares no such constraint.
NameTaken(u, name, id) ==
  /\ remote.uniqueFolderNames
  /\ \E row \in remote.folders : row.user_id = u /\ row.name = name /\ row.id # id

\* createFolder, lines 313-329
createFolder(name) ==
  IF user = NoUser
    THEN ReturnAtOnce("createFolder", name, Result(DNull, NoUserFound))
    ELSE StartRemote("createFolder", name) /\ g' = g

\* createFolder, lines 331-346: the insert is subject to folders_user_name_unique
createFolderResponse(i, r) ==
  /\ ops[i].kind = "createFolder"
  /\ ops[i].pc = "remote"
  /\ LET u == ops[i].cl.user
         data == Folder(remote.nextFolder, u, TrimName(ops[i].arg))
     IN \/ /\ r = "ok"
           /\ ~NameTaken(u, data.name, data.id)
           /\ remote.nextFolder <= MaxInserts
           /\ remote' = [remote EXCEPT !.folders = @ \cup {data}, !.nextFolder = @ + 1]
           /\ RefreshFolders(i, DRow(data))
        \/ /\ r = "ok"
           /\ NameTaken(u, data.name, data.id)
           /\ RejectRemote(i, DuplicateKey, DNull)
        \/ FailRemote(i, r, DNull)

\* updateFolder, lines 349-364
updateFolder(id, name) ==
  IF user = NoUser
    THEN ReturnAtOnce("updateFolder", <<id, name>>, Result(DNull, NoUserFound))
    ELSE StartRemote("updateFolder", <<id, name>>) /\ g' = g

\* updateFolder, lines 366-381
updateFolderResponse(i, r) ==
  /\ ops[i].kind = "updateFolder"
  /\ ops[i].pc = "remote"
  /\ LET u == ops[i].cl.user
         id == ops[i].arg[1]
         name == TrimName(ops[i].arg[2])
         hit == {row \in remote.folders : row.id = id /\ row.user_id = u}
     IN \/ /\ r = "ok"
           /\ hit # {}
           /\ ~NameTaken(u, name, id)
           /\ remote' = [remote EXCEPT !.folders = (@ \ hit) \cup {Folder(id, u, name)}]
           /\ RefreshFolders(i, DRow(Folder(id, u, name)))
        \/ /\ r = "ok"
           /\ hit # {}
           /\ NameTaken(u, name, id)
           /\ RejectRemote(i, DuplicateKey, DNull)
        \/ /\ r = "ok"
           /\ hit = {}
           /\ RejectRemote(i, NoRows, DNull)
        \/ FailRemote(i, r, DNull)

\* deleteFolder, lines 384-397
deleteFolder(id) ==
  IF user = NoUser
    THEN ReturnAtOnce("deleteFolder", id, Result(DBool(FALSE), NoUserFound))
    ELSE StartRemote("deleteFolder", id) /\ g' = g

\* deleteFolder, lines 399-414
deleteFolderResponse(i, r) ==
  /\ ops[i].kind = "deleteFolder"
  /\ ops[i].pc = "remote"
  /\ \/ /\ r = "ok"
        /\ LET gone == {row \in remote.folders :
                           row.id = ops[i].arg /\ row.user_id = ops[i].cl.user}
           IN remote' = [remote EXCEPT
                           !.folders = @ \ gone,
                           \* song_folders_folder_id_fkey ... ON DELETE CASCADE
                           !.songFolders = {l \in @ : \A row \in gone : l.folder_id # row.id}]
        /\ RefreshFolders(i, DBool(TRUE))
     \/ FailRemote(i, r, DBool(FALSE))

\* ------------------------------------------------- song-folder operations
\* the call in slot i got what it asked for and returns it
Succeed(i, res) ==
  /\ error' = error
  /\ Finish(i, res)
  /\ UNCHANGED <<holderVars, settings, searchQuery, allSongs, user, cachedSongs,
                 cachedFavourites, cachedFolders, lastSync, storage, now, budget, g>>

\* getSong, lines 95-104
getSong(id) == StartRemote("getSong", id) /\ g' = g

\* getSong, lines 106-118: .single() wants exactly one row
getSongResponse(i, r) ==
  /\ ops[i].kind = "getSong"
  /\ ops[i].pc = "remote"
  /\ LET hit == {row \in remote.songs : row.id = ops[i].arg}
     IN \/ /\ r = "ok"
           /\ hit # {}
           /\ remote' = remote
           /\ Succeed(i, Result(DRow(CHOOSE row \in hit : TRUE), Null))
        \/ /\ r = "ok"
           /\ hit = {}
           /\ RejectRemote(i, NoRows, DNull)
        \/ FailRemote(i, r, DNull)

\* a song_folders table without row-level policies
LinksOfAnyone(u) == remote.songFolders

\* the links a request of user u may see or change: those of u's folders
\* (row-level policies of song_folders, setup.sql lines 116-140)
LinksOf(u) ==
  {l \in remote.songFolders :
     \E row \in remote.folders : row.id = l.folder_id /\ row.user_id = u}

\* addSongToFolder, lines 418-430
addSongToFolder(songId, folderId) ==
  StartRemote("addSongToFolder", <<songId, folderId>>) /\ g' = g

RlsViolation == "new row violates row-level security policy"

\* the policy "Users can add songs to own folders" (setup.sql lines 123-128):
\* a request of user u may insert a link into a folder of u only
MayLink(u, folderId) ==
  \E row \in remote.folders : row.id = folderId /\ row.user_id = u

\* addSongToFolder, lines 432-444: the insert is subject to the insert policy
\* and to song_folders_folder_song_unique (the songs offered exist)
addSongToFolderResponse(i, r) ==
  /\ ops[i].kind = "addSongToFolder"
  /\ ops[i].pc = "remote"
  /\ LET songId == ops[i].arg[1]
         folderId == ops[i].arg[2]
         data == SongFolder(remote.nextLink, songId, folderId)
         taken == \E l \in remote.songFolders : l.song_id = songId /\ l.folder_id = folderId
     IN \/ /\ r = "ok"
           /\ MayLink(ops[i].cl.user, folderId)
           /\ ~taken
           /\ remote.nextLink <= MaxInserts
           /\ remote' = [remote EXCEPT !.songFolders = @ \cup {data}, !.nextLink = @ + 1]
           /\ Succeed(i, Result(DRow(data), Null))
        \/ /\ r = "ok"
           /\ ~MayLink(ops[i].cl.user, folderId)
           /\ RejectRemote(i, RlsViolation, DNull)
        \/ /\ r = "ok"
           /\ MayLink(ops[i].cl.user, folderId)
           /\ taken
           /\ RejectRemote(i, DuplicateKey, DNull)
        \/ FailRemote(i, r, DNull)

\* removeSongFromFolder, lines 447-456
removeSongFromFolder(songId, folderId) ==
  StartRemote("removeSongFromFolder", <<songId, folderId>>) /\ g' = g

\* removeSongFromFolder, lines 458-470
removeSongFromFolderResponse(i, r) ==
  /\ ops[i].kind = "removeSongFromFolder"
  /\ ops[i].pc = "remote"
  /\ \/ /\ r = "ok"
        /\ remote' = [remote EXCEPT !.songFolders =
                        @ \ {l \in LinksOf(ops[i].cl.user) :
                               l.song_id = ops[i].arg[1] /\ l.folder_id = ops[i].arg[2]}]
        /\ Succeed(i, Result(DBool(TRUE), Null))
     \/ FailRemote(i, r, DBool(FALSE))

\* data.map(item => item.song).filter(Boolean), line 490: the songs of the
\* links, in the order of the links
RECURSIVE SongsOfLinks(_)
SongsOfLinks(links) ==
  IF links = <<>> THEN <<>>
  ELSE LET hit == {row \in remote.songs : row.id = Head(links).song_id}
       IN (IF hit = {} THEN <<>> ELSE <<CHOOSE row \in hit : TRUE>>) \o SongsOfLinks(Tail(links))

\* getFolderSongs, lines 473-483
getFolderSongs(folderId) == StartRemote("getFolderSongs", folderId) /\ g' = g

\* getFolderSongs, lines 485-498
getFolderSongsResponse(i, r) ==
  /\ ops[i].kind = "getFolderSongs"
  /\ ops[i].pc = "remote"
  /\ \/ /\ r = "ok"
        /\ remote' = remote
        /\ Succeed(i, Result(DList(SongsOfLinks(RowsById(
                        {l \in LinksOf(ops[i].cl.user) : l.folder_id = ops[i].arg}))), Null))
     \/ FailRemote(i, r, DNull)

\* getFolderSongCount, lines 501-506: no setLoading, no setError
getFolderSongCount(folderId) ==
  /\ budget > 0
  /\ FreeSlots # {}
  /\ ops' = [ops EXCEPT ![FreeSlot] = NewOp("getFolderSongCount", "remote", Closure, folderId, "", DNull, 0)]
  /\ budget' = budget - 1
  /\ UNCHANGED <<holderVars, settings, searchQuery, allSongs, user, cachedSongs,
                 cachedFavourites, cachedFolders, lastSync, loading, error, storage, now,
                 remote, ret, g>>

\* getFolderSongCount, lines 508-517: the count, or 0 when the request failed
getFolderSongCountResponse(i, r) ==
  /\ ops[i].kind = "getFolderSongCount"
  /\ ops[i].pc = "remote"
  /\ LET count == Cardinality({l \in LinksOf(ops[i].cl.user) : l.folder_id = ops[i].arg})
         res == Result(DNum(IF r = "ok" THEN count ELSE 0), Null)
     IN /\ ret' = Returned(ops[i], res)
        /\ g' = IF r = "ok" THEN g ELSE LogFailure(g, ops[i], res)
  /\ ops' = [ops EXCEPT ![i] = Idle]
  /\ UNCHANGED <<holderVars, settings, searchQuery, allSongs, user, cachedSongs,
                 cachedFavourites, cachedFolders, lastSync, loading, error, storage, now,
                 remote, budget>>

\* ------------------------------------------------------------- syncAllData
FreeSeq == SelectSeq([k \in 1..MaxOps |-> k], LAMBDA k : ops[k].kind = "idle")

\* a string is truthy unless it is null or empty
Truthy(e) == e # Null /\ e # ""

\* Array.prototype.join(', ')
RECURSIVE Join(_)
Join(msgs) ==
  IF msgs = <<>> THEN ""
  ELSE IF Len(msgs) = 1 THEN msgs[1]
  ELSE msgs[1] \o ", " \o Join(Tail(msgs))

\* syncAllData reporting the first failure only
SyncResultFirstError(songsResult, favouritesResult, foldersResult) ==
  IF Truthy(songsResult.error) \/ Truthy(favouritesResult.error) \/ Truthy(foldersResult.error)
    THEN Result(DBool(FALSE),
                Head(SelectSeq(<<songsResult.error, favouritesResult.error, foldersResult.error>>,
                               Truthy)))
    ELSE Result(DBool(TRUE), Null)

\* syncAllData, lines 533-541: the result computed from the three results
SyncResult(songsResult, favouritesResult, foldersResult) ==
  IF Truthy(songsResult.error) \/ Truthy(favouritesResult.error) \/ Truthy(foldersResult.error)
    THEN Result(DBool(FALSE),
                Join(SelectSeq(<<songsResult.error, favouritesResult.error, foldersResult.error>>,
                               Truthy)))
    ELSE Result(DBool(TRUE), Null)

\* syncAllData, lines 521-531: setLoading(true), setError(null), then the three
\* fetches of its closure start in the same turn; without a user fetchFavourites
\* and fetchFolders return at once
syncAllData ==
  /\ budget > 0
  /\ loading' = TRUE
  /\ error' = Null
  /\ budget' = budget - 1
  /\ IF user = NoUser
       THEN /\ Len(FreeSeq) >= 2
            /\ ops' = [ops EXCEPT
                 ![FreeSeq[1]] = NewOp("syncAllData", "join", Closure, 0, "",
                                       [fetchSongs |-> Pending,
                                        fetchFavourites |-> Result(DList(<<>>), NoUserFound),
                                        fetchFolders |-> Result(DList(<<>>), NoUserFound)], 0),
                 ![FreeSeq[2]] = NewOp("fetchSongs", "remote", Closure, 0, "", DNull, FreeSeq[1])]
       ELSE /\ Len(FreeSeq) >= 4
            /\ ops' = [ops EXCEPT
                 ![FreeSeq[1]] = NewOp("syncAllData", "join", Closure, 0, "",
                                       [fetchSongs |-> Pending, fetchFavourites |-> Pending,
                                        fetchFolders |-> Pending], 0),
                 ![FreeSeq[2]] = NewOp("fetchSongs", "remote", Closure, 0, "", DNull, FreeSeq[1]),
                 ![FreeSeq[3]] = NewOp("fetchFavourites", "remote", Closure, 0, "", DNull, FreeSeq[1]),
                 ![FreeSeq[4]] = NewOp("fetchFolders", "remote", Closure, 0, "", DNull, FreeSeq[1])]
  /\ UNCHANGED <<holderVars, settings, searchQuery, allSongs, user, cachedSongs, cachedFavourites, cachedFolders, lastSync, storage,
                 now, remote, ret, g>>

\* syncAllData, lines 533-548, once Promise.all has the three results
syncAllDataJoin(i) ==
  /\ ops[i].kind = "syncAllData"
  /\ ops[i].pc = "join"
  /\ \A k \in {"fetchSongs", "fetchFavourites", "fetchFolders"} : ops[i].val[k].error # Pending.error
  /\ LET res == SyncResult(ops[i].val.fetchSongs, ops[i].val.fetchFavourites,
                           ops[i].val.fetchFolders)
     IN /\ error' = IF res.error = Null THEN error ELSE res.error
        /\ Finish(i, res)
        /\ g' = [g EXCEPT !.sync = ops[i].val]
  /\ UNCHANGED <<holderVars, settings, searchQuery, allSongs, user, cachedSongs, cachedFavourites, cachedFolders, lastSync, storage,
                 now, remote, budget>>

\* ------------------------------------------------------------------ search
Digits == <<"0", "1", "2", "3", "4", "5", "6", "7", "8", "9">>
UpperCase == <<"A", "B", "C", "E", "G", "H", "N", "R", "S">>
LowerCase == <<"a", "b", "c", "e", "g", "h", "n", "r", "s">>
WhiteSpace == {" "}

IsDigit(c) == \E k \in 1..Len(Digits) : Digits[k] = c

\* String.prototype.toLowerCase, character by character
LowerChar(c) ==
  IF \E k \in 1..Len(UpperCase) : UpperCase[k] = c
    THEN LowerCase[CHOOSE k \in 1..Len(UpperCase) : UpperCase[k] = c]
    ELSE c
toLowerCase(str) == [k \in 1..Len(str) |-> LowerChar(str[k])]

\* String.prototype.trim
RECURSIVE trimStart(_)
trimStart(str) ==
  IF str # <<>> /\ Head(str) \in WhiteSpace THEN trimStart(Tail(str)) ELSE str
RECURSIVE trimEnd(_)
trimEnd(str) ==
  IF str # <<>> /\ str[Len(str)] \in WhiteSpace
    THEN trimEnd(SubSeq(str, 1, Len(str) - 1)) ELSE str
trim(str) == trimEnd(trimStart(str))

\* Number.prototype.toString of a song number (a natural number)
RECURSIVE toString(_)
toString(n) ==
  IF n < 10 THEN <<Digits[n + 1]>> ELSE toString(n \div 10) \o <<Digits[(n % 10) + 1]>>

\* /^\d+$/.test(str)
IsNumber(str) == str # <<>> /\ \A k \in 1..Len(str) : IsDigit(str[k])

startsWith(str, prefix) ==
  Len(prefix) <= Len(str) /\ SubSeq(str, 1, Len(prefix)) = prefix

includes(str, part) ==
  \E k \in 0..(Len(str) - Len(part)) : SubSeq(str, k + 1, k + Len(part)) = part

\* the collation rank of a character: space, digits, then letters
Alphabet ==
  <<" ", "0", "1", "2", "3", "4", "5", "6", "7", "8", "9", "a", "b", "c", "e", "g",
    "h", "i", "l", "m", "n", "o", "r", "s", "t", "y", "z">>
CharRank(c) == CHOOSE k \in 1..Len(Alphabet) : Alphabet[k] = LowerChar(c)

\* a.title.localeCompare(b.title) <= 0: by letters first, lower case first on a tie
RECURSIVE LexLE(_, _)
LexLE(a, b) ==
  IF a = <<>> THEN TRUE
  ELSE IF b = <<>> THEN FALSE
  ELSE IF CharRank(Head(a)) # CharRank(Head(b)) THEN CharRank(Head(a)) < CharRank(Head(b))
  ELSE LexLE(Tail(a), Tail(b))

\* lines 60-68: the comparator of the sort
SongLE(a, b, isNumberSearch) ==
  IF isNumberSearch THEN a.song_number <= b.song_number ELSE LexLE(a.title, b.title)

\* Array.prototype.sort (stable), lines 60-68
RECURSIVE SortSongs(_, _)
SortSongs(songs, isNumberSearch) ==
  IF songs = <<>> THEN <<>>
  ELSE LET sorted == SortSongs(SubSeq(songs, 1, Len(songs) - 1), isNumberSearch)
           last == songs[Len(songs)]
           before == {k \in 1..Len(sorted) : SongLE(sorted[k], last, isNumberSearch)}
           cut == IF before = {} THEN 0 ELSE CHOOSE k \in before : \A j \in before : j <= k
       IN SubSeq(sorted, 1, cut) \o <<last>> \o SubSeq(sorted, cut + 1, Len(sorted))

\* lines 51-59: the filter's test of one song
SongMatches(song, query, isNumberSearch) ==
  IF isNumberSearch
    THEN toString(song.song_number) = query \/ startsWith(toString(song.song_number), query)
    ELSE includes(toLowerCase(song.title), query)

\* SongsScreen.filteredSongs, lines 41-69
filteredSongs ==
  IF trim(searchQuery) = <<>> THEN allSongs
  ELSE LET query == trim(toLowerCase(searchQuery))
           isNumberSearch == IsNumber(query)
       IN SortSongs(SelectSeq(allSongs, LAMBDA song : SongMatches(song, query, isNumberSearch)),
                    isNumberSearch)

\* handleSearch, lines 121-123
handleSearch(query) ==
  /\ searchQuery' = query
  /\ UNCHANGED <<holderVars, settings, user, cachedSongs, cachedFavourites, cachedFolders, lastSync, loading,
                 error, storage, now, remote, allSongs, ops, ret, budget, g>>

\* the mount effect, lines 31-35: the cached songs are shown if there are any
showCachedSongs ==
  /\ Len(getSongs) > 0
  /\ allSongs' = getSongs
  /\ UNCHANGED <<holderVars, settings, user, cachedSongs, cachedFavourites, cachedFolders, lastSync, loading,
                 error, storage, now, remote, searchQuery, ops, ret, budget, g>>

\* loadSongs, lines 78-80: it awaits the fetchSongs of its closure
loadSongs ==
  /\ budget > 0
  /\ Len(FreeSeq) >= 2
  /\ loading' = TRUE
  /\ error' = Null
  /\ budget' = budget - 1
  /\ ops' = [ops EXCEPT
       ![FreeSeq[1]] = NewOp("loadSongs", "child", Closure, 0, "", Pending, 0),
       ![FreeSeq[2]] = NewOp("fetchSongs", "remote", Closure, 0, "", DNull, FreeSeq[1])]
  /\ UNCHANGED <<holderVars, settings, user, cachedSongs, cachedFavourites, cachedFolders, lastSync, storage,
                 now, remote, searchQuery, allSongs, ret, g>>

\* loadSongs, lines 81-86: the fetched songs, or else the closure's cached songs
loadSongsResume(i) ==
  /\ ops[i].kind = "loadSongs"
  /\ ops[i].pc = "resume"
  /\ allSongs' = IF ops[i].val.data.tag # "null" THEN ops[i].val.data.v ELSE ops[i].cl.songs
  /\ ops' = [ops EXCEPT ![i] = Idle]
  /\ UNCHANGED <<holderVars, settings, user, cachedSongs, cachedFavourites, cachedFolders, lastSync, loading,
                 error, storage, now, remote, searchQuery, ret, budget, g>>

\* the value of a string of digits
RECURSIVE parseInt(_)
parseInt(str) ==
  IF str = <<>> THEN 0
  ELSE 10 * parseInt(SubSeq(str, 1, Len(str) - 1))
       + ((CHOOSE k \in 1..Len(Digits) : Digits[k] = str[Len(str)]) - 1)

InvalidInteger == "invalid input syntax for type integer"

\* the backend's answer to .or(`title.ilike.%${query}%,song_number.eq.${query}`),
\* line 133; songs.song_number is an INTEGER column (setup.sql line 9), which
\* is compared with the query only if the query is an integer
SearchRows(table, query) ==
  {song \in table : \/ includes(toLowerCase(song.title), toLowerCase(query))
                    \/ /\ IsNumber(trim(query))
                       /\ song.song_number = parseInt(trim(query))}

\* searchSongs that tests the query for emptiness without trimming it
searchSongsUntrimmed(query) ==
  /\ IF query = <<>>
       THEN StartRemote("fetchSongs", 0)
       ELSE StartRemote("searchSongs", query)
  /\ g' = [g EXCEPT !.search = [id |-> budget, query |-> query]]

\* searchSongs, lines 121-133: a blank query is a plain fetchSongs()
searchSongs(query) ==
  /\ IF trim(query) = <<>>
       THEN StartRemote("fetchSongs", 0)
       ELSE StartRemote("searchSongs", query)
  /\ g' = [g EXCEPT !.search = [id |-> budget, query |-> query]]

\* searchSongs, lines 135-147; what the backend does with a query that is no
\* integer is left open: it rejects the filter on song_number, or the filter
\* matches no row
searchSongsResponse(i, r) ==
  /\ ops[i].kind = "searchSongs"
  /\ ops[i].pc = "remote"
  /\ \/ /\ r = "ok"
        /\ error' = error
        /\ Finish(i, Result(DList(RowsById(SearchRows(remote.songs, ops[i].arg))), Null))
        /\ UNCHANGED <<holderVars, settings, searchQuery, allSongs, user, cachedSongs, cachedFavourites,
                       cachedFolders, lastSync, storage, now, remote, budget, g>>
     \/ /\ r = "error"
        /\ ~IsNumber(trim(ops[i].arg))
        /\ RejectRemote(i, InvalidInteger, DNull)
     \/ FailRemote(i, r, DNull)

\* ------------------------------------------------------- initial states
\* rows that exist before the behaviour starts
SeedFavourites == {Favourite(101, "u1", 1), Favourite(102, "u2", 1)}
SeedFolders == {Folder(101, "u1", "A"), Folder(102, "u2", "A")}
SeedSongFolders == {SongFolder(101, 1, 101)}

\* the backend with the seeded songs and the given favourites and folders
Backend(songs, favs, folders) ==
  [songs |-> songs, favourites |-> favs, folders |-> folders, nextFav |-> 1, nextFolder |-> 1,
   songFolders |-> SeedSongFolders, nextLink |-> 1, uniqueFolderNames |-> TRUE]

\* a snapshot an earlier run of the app persisted at time 0
Snapshot(songs, favs, folders) ==
  [hasData |-> TRUE,
   data |-> [songs |-> SongsByNumber(songs), favourites |-> RowsById(favs),
             folders |-> FoldersByName(folders)],
   lastUpdated |-> 0, parses |-> TRUE, hasSync |-> TRUE, lastSync |-> 0,
   hasSettings |-> FALSE, settings |-> DEFAULT_SETTINGS]

NoReturn == [id |-> 0, op |-> "none", arg |-> 0, user |-> NoUser, data |-> DNull, error |-> Null]

NoHistory ==
  [nUpd |-> 0, upd |-> [has |-> {}, out |-> "ok", lists |-> EmptyLists],
   expect |-> EmptyLists, lastEv |-> "none", evAt |-> NoTime,
   inserts |-> [p \in Users \X SongIds |-> 0], addRets |-> {},
   search |-> [id |-> 0 - 1, query |-> <<>>],
   failed |-> [id |-> 0 - 1, kind |-> "none", data |-> DNull, error |-> Null],
   sync |-> [fetchSongs |-> Pending, fetchFavourites |-> Pending, fetchFolders |-> Pending]]

\* the state after the providers were constructed and mounted: the states hold
\* their useState defaults (AuthProvider 23-25 with the session restored,
\* OfflineProvider 439-443, useSupabase 41-42, SongsScreen 23-25) and the mount
\* effect's loadCachedData (595-597) has issued its reads
InitWith(u, st, rem, n) ==
  /\ user = u
  /\ session = SessionOf(u)
  /\ isLoading = FALSE
  /\ events = <<>>
  /\ isAppReady = TRUE
  /\ settings = DEFAULT_SETTINGS
  /\ cachedSongs = <<>>
  /\ cachedFavourites = <<>>
  /\ cachedFolders = <<>>
  /\ lastSync = NoTime
  /\ loading = FALSE
  /\ error = Null
  /\ storage = st
  /\ now = 1
  /\ remote = rem
  /\ searchQuery = <<>>
  /\ allSongs = <<>>
  /\ ops = [i \in Slots |->
              IF i = 1
                THEN [kind |-> "load", pc |-> "storage", id |-> 0,
                      cl |-> [user |-> u] @@ EmptyLists, arg |-> 0, out |-> "ok",
                      val |-> st, parent |-> 0]
                ELSE Idle]
  /\ ret = NoReturn
  /\ budget = n
  /\ g = NoHistory

\* ------------------------------------------------------------ behaviours
\* the OfflineProvider alone, called by a consumer of the context
SomeLists ==
  [songs : {<<>>, SongsByNumber(SongsTable)},
   favourites : {<<>>, RowsById({Favourite(101, "u1", 1)})},
   folders : {<<>>, FoldersByName({Folder(101, "u1", "A")})}]

\* the partial data that provide the fields of has: songs and folders, when
\* provided, are not empty
FitsPartial(has, l) ==
  /\ \A f \in Fields \ has : l[f] = <<>>
  /\ \A f \in has \ {"favourites"} : l[f] # <<>>

PartialsWith(has) ==
  {Partial(has, l) : l \in {x \in SomeLists : FitsPartial(has, x)}}
Partials == UNION {PartialsWith(has) : has \in SUBSET Fields}

InitCache ==
  \E u \in {NoUser, "u1"} :
    \E st \in {EmptyStorage, Snapshot(SongsTable, SeedFavourites, SeedFolders)} :
      InitWith(u, st, Backend(SongsTable, SeedFavourites, SeedFolders), MaxCacheCalls)

NextCache ==
  \/ \E data \in Partials : \E out \in {"ok", "failData"} : UpdateCacheCall(data, out)
  \/ \E i \in Slots : UpdateCacheSettled(i)
  \/ \E out \in {"ok", "fail"} : ClearCacheCall(out)
  \/ \E i \in Slots : ClearCacheSettled(i)
  \/ \E i \in Slots : LoadSettled(i)
  \/ \E u \in Users \cup {NoUser} : AuthStateChange(u)

SpecCache == InitCache /\ [][NextCache]_vars

\* C1: after any sequence of updateCache calls the in-memory list of each
\* field is the one given by the last call that provided the field, and a
\* field no call provided still holds what it held before the sequence
\* (g.expect replays the sequence field by field, starting from the lists the
\* last load or clearCache left).
C1_LastWriteWins ==
  /\ cachedSongs = g.expect.songs
  /\ cachedFavourites = g.expect.favourites
  /\ cachedFolders = g.expect.folders

\* two calls were made, the last one gave favourites alone, and the songs
\* an earlier call or the load put in the cache are still there
C1_Witness ==
  /\ g.nUpd = 2
  /\ g.upd.has = {"favourites"}
  /\ g.upd.lists.favourites # <<>>
  /\ cachedFavourites = g.upd.lists.favourites
  /\ cachedSongs # <<>>
  /\ \A i \in Slots : ops[i].kind = "idle"

\* the OfflineProvider while the wall clock advances: a step of the clock is
\* a whole freshness window or one millisecond more
InitExpiry ==
  \E st \in {EmptyStorage, Snapshot(SongsTable, SeedFavourites, SeedFolders)} :
    InitWith("u1", st, Backend(SongsTable, SeedFavourites, SeedFolders), MaxExpiryCalls)

NextExpiry ==
  \/ \E data \in PartialsWith({"songs"}) \cup PartialsWith({}) :
       \E out \in {"ok", "failSync"} : UpdateCacheCall(data, out)
  \/ \E i \in Slots : UpdateCacheSettled(i)
  \/ \E out \in {"ok", "fail"} : ClearCacheCall(out)
  \/ \E i \in Slots : ClearCacheSettled(i)
  \/ \E i \in Slots : LoadSettled(i)
  \/ \E d \in {cacheTimeout, cacheTimeout + 1} : Tick(d)

SpecExpiry == InitExpiry /\ [][NextExpiry]_vars

\* C5: isCacheExpired() is true exactly when there is no last-sync timestamp
\* or more than 24 hours have passed since it; so it is true once clearCache()
\* has completed, false once an updateCache() has completed successfully, and
\* true again when more than 24 hours have passed since that update (g.lastEv
\* is the last of these calls, or of the loads that found a stored timestamp,
\* to complete, g.evAt the time it completed).
C5_ExpiryWindow ==
  /\ isCacheExpired <=> (lastSync = NoTime \/ now - lastSync > 24 * 60 * 60 * 1000)
  /\ g.lastEv = "clear" => isCacheExpired
  /\ g.lastEv = "update" => (isCacheExpired <=> now - g.evAt > 24 * 60 * 60 * 1000)

\* exactly 24 hours after a successful updateCache(): not yet expired
C5_Witness ==
  /\ g.lastEv = "update"
  /\ now - g.evAt = 24 * 60 * 60 * 1000
  /\ ~isCacheExpired

\* the user-scoped operations of useSupabase, with and without a user
InitUserScoped ==
  \E u \in {NoUser, "u1"} :
    \E st \in {EmptyStorage, Snapshot(SongsTable, SeedFavourites, SeedFolders)} :
      InitWith(u, st, Backend(SongsTable, SeedFavourites, SeedFolders), MaxScopedCalls)

NextUserScoped ==
  \/ fetchFavourites
  \/ \E i \in Slots : \E r \in RemoteOutcomes : \E out \in {"ok", "failData"} :
       fetchFavouritesResponse(i, r, out)
  \/ \E songId \in SongIds : addFavourite(songId)
  \/ \E i \in Slots : \E r \in RemoteOutcomes : \E out \in {"ok", "failData"} :
       addFavouriteResponse(i, r, out)
  \/ \E songId \in SongIds : removeFavourite(songId)
  \/ \E i \in Slots : \E r \in RemoteOutcomes : \E out \in {"ok", "failData"} :
       removeFavouriteResponse(i, r, out)
  \/ fetchFolders
  \/ \E i \in Slots : \E r \in RemoteOutcomes : \E out \in {"ok", "failData"} :
       fetchFoldersResponse(i, r, out)
  \/ \E name \in FolderNameInputs : createFolder(name)
  \/ \E i \in Slots : \E r \in RemoteOutcomes : createFolderResponse(i, r)
  \/ \E id \in {101, 102} : \E name \in FolderNameInputs : updateFolder(id, name)
  \/ \E i \in Slots : \E r \in RemoteOutcomes : updateFolderResponse(i, r)
  \/ \E id \in {101, 102} : deleteFolder(id)
  \/ \E i \in Slots : \E r \in RemoteOutcomes : deleteFolderResponse(i, r)
  \/ \E i \in Slots : FolderMutationResume(i)
  \/ \E i \in Slots : CacheWriteSettled(i)
  \/ \E i \in Slots : LoadSettled(i)

SpecUserScoped == InitUserScoped /\ [][NextUserScoped]_vars

\* this step is a call of operation kind by the UI
Called(kind) ==
  /\ budget' = budget - 1
  /\ \/ ret'.id = budget /\ ret'.op = kind
     \/ \E i \in Slots : ops'[i].id = budget /\ ops'[i].kind = kind /\ ops'[i].parent = 0

UserScopedOps ==
  {"fetchFavourites", "addFavourite", "removeFavourite", "fetchFolders",
   "createFolder", "updateFolder", "deleteFolder"}

\* C6: while nobody is signed in, a call of a user-scoped operation returns
\* in the step of the call with the error 'No user found', sends no request
\* (no call is left in flight, the backend is as before) and leaves the cache,
\* in memory and in storage, as it was.
C6_NoUserNoRequest ==
  [][\A kind \in UserScopedOps :
       (user = NoUser /\ Called(kind))
         => /\ ret'.id = budget
            /\ ret'.op = kind
            /\ ret'.error = "No user found"
            /\ \A i \in Slots : ops'[i].kind = ops[i].kind /\ ops'[i].pc = ops[i].pc
            /\ remote' = remote
            /\ UNCHANGED <<cachedSongs, cachedFavourites, cachedFolders, lastSync, storage>>]_vars

\* createFolder was called while nobody was signed in and a loaded cache was
\* in place
C6_Witness ==
  /\ user = NoUser
  /\ ret.op = "createFolder"
  /\ ret.error = NoUserFound
  /\ cachedFolders # <<>>

\* C2: every updateCache(partial) whose writes succeed persists a snapshot
\* holding the provided lists and, for each omitted field, the list the cache
\* held just before the call, stamps the persisted last-sync item with the
\* current time, and on completion sets the in-memory lastSync to the current
\* time; calls that overlap are no exception.
C2_SnapshotOfCurrentCache ==
  [][/\ (g'.nUpd = g.nUpd + 1 /\ g'.upd.out = "ok")
          => /\ storage'.hasData
             /\ \A f \in Fields :
                  storage'.data[f] = IF f \in g'.upd.has THEN g'.upd.lists[f] ELSE Lists[f]
             /\ storage'.hasSync
             /\ storage'.lastSync = now
     /\ (\E i \in Slots : /\ ops[i].kind \in CachingKinds \cup {"updateCache"}
                          /\ ops[i].pc = "storage"
                          /\ ops[i].out = "ok"
                          /\ ops'[i].pc # "storage")
          => lastSync' = now]_vars

\* two inserts were sent for (u1, 1) and the second addFavourite(1) returned
\* the backend's duplicate-key error
C3_Witness ==
  /\ g.inserts[<<"u1", 1>>] = 2
  /\ \E a, b \in g.addRets :
       /\ a.user = "u1" /\ a.song = 1 /\ a.error = Null
       /\ b.user = "u1" /\ b.song = 1 /\ b.error = DuplicateKey

\* a syncAllData of user u1 returned success, its three fetches having
\* overlapped: the cache holds the fetched songs, the persisted snapshot none
C2_Witness ==
  /\ user = "u1"
  /\ ret.op = "syncAllData"
  /\ ret.data = DBool(TRUE)
  /\ g.nUpd = 3
  /\ cachedSongs # <<>>
  /\ storage.hasData
  /\ storage.data.songs = <<>>

\* user u1 marks songs as favourites; every request to the backend and every
\* write to storage succeeds, and u1 has no favourite to begin with
InitFavourites ==
  \E st \in {EmptyStorage,
              Snapshot(SongsTable, {Favourite(102, "u2", 1)}, SeedFolders)} :
    InitWith("u1", st, Backend(SongsTable, {Favourite(102, "u2", 1)}, SeedFolders),
             MaxFavCalls)

NextFavourites ==
  \/ \E songId \in SongIds : addFavourite(songId)
  \/ \E i \in Slots : addFavouriteResponse(i, "ok", "ok")
  \/ \E i \in Slots : CacheWriteSettled(i)
  \/ \E i \in Slots : LoadSettled(i)

SpecFavourites == InitFavourites /\ [][NextFavourites]_vars

\* C3: the addFavourite(s) calls of a user return one and the same row, each
\* with a null error; at most one insert for (u, s) is sent to the backend;
\* and the cached favourites never hold two entries for the same (u, s).
C3_AddFavouriteIdempotent ==
  /\ \A a, b \in g.addRets :
       (a.user = b.user /\ a.song = b.song)
         => a.error = Null /\ b.error = Null /\ a.data.v = b.data.v
  /\ \A p \in Users \X SongIds : g.inserts[p] <= 1
  /\ \A p \in Users \X SongIds :
       Cardinality({k \in 1..Len(cachedFavourites) :
                      /\ cachedFavourites[k].user_id = p[1]
                      /\ cachedFavourites[k].song_id = p[2]}) <= 1

\* syncAllData with and without a user after a fresh install, each fetch and
\* each cache write succeeding or failing on its own
InitSync ==
  \E u \in {NoUser, "u1"} :
    InitWith(u, EmptyStorage, Backend(SongsTable, SeedFavourites, SeedFolders), MaxSyncCalls)

NextSync ==
  \/ syncAllData
  \/ \E i \in Slots : \E r \in RemoteOutcomes : \E out \in {"ok", "failData"} :
       fetchSongsResponse(i, r, out)
  \/ \E i \in Slots : \E r \in RemoteOutcomes : \E out \in {"ok", "failData"} :
       fetchFavouritesResponse(i, r, out)
  \/ \E i \in Slots : \E r \in RemoteOutcomes : \E out \in {"ok", "failData"} :
       fetchFoldersResponse(i, r, out)
  \/ \E i \in Slots : CacheWriteSettled(i)
  \/ \E i \in Slots : syncAllDataJoin(i)
  \/ \E i \in Slots : LoadSettled(i)

SpecSync == InitSync /\ [][NextSync]_vars

SyncFetches == <<"fetchSongs", "fetchFavourites", "fetchFolders">>

\* the errors of the three fetches that failed, in the order of SyncFetches
FailedFetches(results) ==
  SelectSeq([k \in 1..3 |-> results[SyncFetches[k]].error], LAMBDA e : e # Null)

\* C7: the step that calls syncAllData puts its fetches in flight together
\* (without a user the two user-scoped ones have already returned 'No user
\* found'); when syncAllData returns, it returns {data: true, error: null}
\* exactly if none of the three fetches returned an error, and otherwise
\* data = false with the fetches' errors joined by ', ' in the order songs,
\* favourites, folders.
C7_SyncAggregates ==
  [][/\ Called("syncAllData")
          => \E p \in Slots :
               /\ ops[p].kind = "idle"
               /\ ops'[p].kind = "syncAllData"
               /\ \A k \in 1..3 :
                    \/ \E j \in Slots : /\ ops[j].kind = "idle"
                                        /\ ops'[j].kind = SyncFetches[k]
                                        /\ ops'[j].pc = "remote"
                                        /\ ops'[j].parent = p
                    \/ /\ user = NoUser
                       /\ k > 1
                       /\ ops'[p].val[SyncFetches[k]].error = "No user found"
     /\ \A i \in Slots :
          (ops[i].kind = "syncAllData" /\ ops'[i].kind = "idle")
            => LET failed == FailedFetches(ops[i].val) IN
                 /\ ret'.op = "syncAllData"
                 /\ (ret'.data = DBool(TRUE) /\ ret'.error = Null) <=> failed = <<>>
                 /\ Len(failed) = 1 => ret'.data = DBool(FALSE) /\ ret'.error = failed[1]
                 /\ Len(failed) = 2
                      => ret'.data = DBool(FALSE) /\ ret'.error = failed[1] \o ", " \o failed[2]
                 /\ Len(failed) = 3
                      => /\ ret'.data = DBool(FALSE)
                         /\ ret'.error = failed[1] \o ", " \o failed[2] \o ", " \o failed[3]]_vars

\* syncAllData returned after its songs fetch succeeded and the two others
\* failed in different ways
C7_Witness ==
  /\ ret.op = "syncAllData"
  /\ ret.data = DBool(FALSE)
  /\ g.sync.fetchSongs.error = Null
  /\ g.sync.fetchFavourites.error = "remote error"
  /\ g.sync.fetchFolders.error = StorageError
  /\ ret.error = "remote error, storage error"

\* the songs screen and searchSongs; the queries are all strings of up to
\* MaxQueryLen of the characters below and five more
QueryChars == {"1", " "}
Queries ==
  UNION {[1..n -> QueryChars] : n \in 0..MaxQueryLen}
    \cup {<<"a">>, <<"1", "2">>, <<" ", " ">>, <<"g", "r", "a", "c", "e">>,
          <<"G", "R", "A", "C", "E", " ">>}

InitSearch ==
  InitWith("u1", Snapshot(SongsTable, SeedFavourites, SeedFolders),
           Backend(SongsTable, SeedFavourites, SeedFolders), MaxSearchCalls)

NextSearch ==
  \/ \E query \in Queries : handleSearch(query)
  \/ showCachedSongs
  \/ \E i \in Slots : \E r \in RemoteOutcomes : \E out \in {"ok", "failData"} :
       fetchSongsResponse(i, r, out)
  \/ \E i \in Slots : CacheWriteSettled(i)
  \/ \E query \in Queries : searchSongs(query)
  \/ \E i \in Slots : \E r \in RemoteOutcomes : searchSongsResponse(i, r)
  \/ \E i \in Slots : LoadSettled(i)

SpecSearch == InitSearch /\ [][NextSearch]_vars

\* the songs of a set that a search for query (without surrounding blanks)
\* is to return
Wanted(songs, query) ==
  IF \A k \in 1..Len(query) : IsDigit(query[k])
    THEN {song \in songs : \/ toString(song.song_number) = query
                           \/ startsWith(toString(song.song_number), query)}
    ELSE {song \in songs : includes(toLowerCase(song.title), toLowerCase(query))}

\* C8: a search with a query that is not blank returns exactly the songs
\* whose number equals or begins with the query if the query is made of digits
\* only, and otherwise exactly the songs whose title contains the query
\* whatever the case of the letters; this of the list the songs screen shows
\* and of what a successful searchSongs returns.
C8_SearchMatches ==
  /\ trim(searchQuery) # <<>>
       => /\ Range(filteredSongs) = Wanted(Range(allSongs), trim(searchQuery))
          /\ Len(filteredSongs) = Cardinality(Range(filteredSongs))
  /\ (ret.op = "searchSongs" /\ ret.error = Null)
       => Range(ret.data.v) = Wanted(remote.songs, trim(ret.arg))

\* searchSongs("1") succeeded over the songs numbered 1, 2 and 12 and returned
\* one song
C8_Witness ==
  /\ ret.op = "searchSongs"
  /\ ret.error = Null
  /\ ret.arg = <<"1">>
  /\ Len(ret.data.v) = 1
  /\ Cardinality(Wanted(remote.songs, <<"1">>)) = 2

\* C9: with an empty or blank query the songs screen shows the loaded list
\* as it is, and searchSongs is a fetchSongs: the call that returns is a
\* fetchSongs and, when it succeeds, returns the whole songs table in the order
\* of the song numbers.
C9_BlankQueryIsFetchAll ==
  /\ trim(searchQuery) = <<>> => filteredSongs = allSongs
  /\ (ret.id = g.search.id /\ trim(g.search.query) = <<>>)
       => /\ ret.op = "fetchSongs"
          /\ ret.error = Null => ret.data = DList(SongsByNumber(remote.songs))

\* searchSongs(" ") returned all the songs while the screen, with a blank
\* query of two characters, shows the loaded songs
C9_Witness ==
  /\ ret.id = g.search.id
  /\ g.search.query = <<" ">>
  /\ ret.error = Null
  /\ Len(ret.data.v) = 3
  /\ searchQuery = <<" ", " ">>
  /\ Len(filteredSongs) = 3

\* the rows of rows that u owns, in the order of rows
RECURSIVE OwnedBy(_, _)
OwnedBy(rows, u) ==
  IF rows = <<>> THEN <<>>
  ELSE IF Head(rows).user_id = u THEN <<Head(rows)>> \o OwnedBy(Tail(rows), u)
  ELSE OwnedBy(Tail(rows), u)

\* C4: getFavourites() and getFolders() are empty while nobody is signed in,
\* and for a signed-in user they are exactly the cached rows that user owns.
C4_GettersScopedToUser ==
  /\ user = NoUser => getFavourites = <<>> /\ getFolders = <<>>
  /\ user # NoUser =>
       /\ getFavourites = OwnedBy(cachedFavourites, user)
       /\ getFolders = OwnedBy(cachedFolders, user)
       /\ \A r \in Range(getFavourites) \cup Range(getFolders) : r.user_id = user

\* a user is signed in while the cache holds favourites and folders of that
\* user and of another one
C4_Witness ==
  /\ user \in Users
  /\ \E a, b \in Range(cachedFavourites) : a.user_id = user /\ b.user_id # user
  /\ \E a, b \in Range(cachedFolders) : a.user_id = user /\ b.user_id # user
  /\ Len(getFavourites) < Len(cachedFavourites)

\* C10: when a clearCache() call completes successfully, storage holds
\* neither the data snapshot nor the last-sync item, the three in-memory
\* lists are empty and the in-memory last-sync timestamp is null.
C10_ClearedEverywhere ==
  [][(\E i \in Slots : /\ ops[i].kind = "clearCache"
                       /\ ops[i].out = "ok"
                       /\ ops'[i].kind = "idle")
       => /\ ~storage'.hasData
          /\ ~storage'.hasSync
          /\ cachedSongs' = <<>>
          /\ cachedFavourites' = <<>>
          /\ cachedFolders' = <<>>
          /\ lastSync' = NoTime]_vars

\* clearCache() has returned successfully, the in-memory lists are empty, and
\* storage holds a data snapshot written while the removal was pending
C10_Witness ==
  /\ ret.op = "clearCache"
  /\ ret.error = Null
  /\ cachedSongs = <<>>
  /\ lastSync = NoTime
  /\ storage.hasData
  /\ storage.data.songs # <<>>
  /\ \A i \in Slots : ops[i].kind # "clearCache"


\* ------------------------------------------------------------- SpecAuth
\* the app starts: AuthProvider holds its useState defaults (lines 23-25) and
\* its effect has called getSession (line 32), which will report the session
\* persisted by an earlier run, and has subscribed (line 42), for which the
\* backend may notify of the initial session; OfflineProvider's mount effect
\* has read an empty storage
InitAuth ==
  \E persisted \in {NoSession, SessionOf("u1")}, initial \in BOOLEAN :
    /\ user = NoUser
    /\ session = NoSession
    /\ isLoading = TRUE
    /\ events = IF initial THEN <<Notification("INITIAL_SESSION", persisted)>> ELSE <<>>
    /\ isAppReady = FALSE
    /\ settings = DEFAULT_SETTINGS
    /\ cachedSongs = <<>>
    /\ cachedFavourites = <<>>
    /\ cachedFolders = <<>>
    /\ lastSync = NoTime
    /\ loading = FALSE
    /\ error = Null
    /\ storage = EmptyStorage
    /\ now = 1
    /\ remote = Backend(SongsTable, SeedFavourites, SeedFolders)
    /\ searchQuery = <<>>
    /\ allSongs = <<>>
    /\ ops = [i \in Slots |->
                IF i = 1
                  THEN [kind |-> "getSession", pc |-> "remote", id |-> 0,
                        cl |-> [user |-> NoUser] @@ EmptyLists, arg |-> 0, out |-> "",
                        val |-> persisted, parent |-> 0]
                  ELSE Idle]
    /\ ret = NoReturn
    /\ budget = MaxAuthCalls
    /\ g = NoHistory

BackendEvents ==
  {Notification("TOKEN_REFRESHED", [user |-> "u1", token |-> 2]),
   Notification("SIGNED_OUT", NoSession)}

NextAuth ==
  \/ \E i \in Slots, r \in {"ok", "throw"}, reload \in BOOLEAN : getSessionResolved(i, r, reload)
  \/ \E reload \in BOOLEAN : onAuthStateChange(reload)
  \/ \E e \in BackendEvents : BackendEvent(e)
  \/ \E u \in Users : signIn(u)
  \/ \E i \in Slots, r \in RemoteOutcomes : signInResponse(i, r)
  \/ \E i \in Slots, r \in RemoteOutcomes : ProfileResponse(i, r)
  \/ \E u \in Users : signUp(u)
  \/ \E i \in Slots, r \in RemoteOutcomes, confirmed \in BOOLEAN : signUpResponse(i, r, confirmed)
  \/ signOut
  \/ \E i \in Slots, r \in RemoteOutcomes : signOutResponse(i, r)
  \/ \E i \in Slots : signOutDone(i)
  \/ \E u \in Users : resetPassword(u)
  \/ \E i \in Slots, r \in RemoteOutcomes : resetPasswordResponse(i, r)
  \/ \E i \in Slots : LoadSettled(i)

SpecAuth == InitAuth /\ [][NextAuth]_vars

\* the calls of the auth holder and of the remote accessor
HolderCalls == {"signUp", "signIn", "signOut", "resetPassword"}

\* a step in which the listener ran for a notification
Notified == events # <<>> /\ events' = Tail(events)

\* a step in which the initial getSession resolved with the persisted session
InitialSessionReported ==
  ret'.op = "getSession" /\ ret.op # "getSession" /\ ret'.data.tag # "thrown"

\* C12: the holder starts authenticating (isLoading, no user, no session) and
\* stays so until the backend reports the session status, through the initial
\* getSession or through a notification; a report makes it authenticated if
\* the reported session is not null and unauthenticated otherwise; no other
\* step changes the auth state, and it never is authenticating again.
C12_AuthenticatingUntilReported ==
  [][ /\ isLoading => user = NoUser /\ session = NoSession
      /\ ~isLoading => ~isLoading'
      /\ Notified
           => /\ ~isLoading'
              /\ ((user' # NoUser) <=> (Head(events).session # NoSession))
              /\ ((session' # NoSession) <=> (Head(events).session # NoSession))
      /\ InitialSessionReported
           => \E i \in Slots :
                /\ ops[i].kind = "getSession"
                /\ ~isLoading'
                /\ ((user' # NoUser) <=> (ops[i].val # NoSession))
                /\ ((session' # NoSession) <=> (ops[i].val # NoSession))
      /\ ~Notified /\ ~InitialSessionReported => UNCHANGED <<isLoading, user, session>>
    ]_vars

\* the initial session check found the persisted session: authenticated
C12_Witness ==
  /\ ret.op = "getSession"
  /\ ret.data.tag # "thrown"
  /\ ~isLoading
  /\ user = "u1"
  /\ session = SessionOf("u1")

\* C13: a signIn whose request fails (error answer or exception) resolves to
\* an {error} that is not null and changes neither the auth state nor the
\* notifications; a signIn whose request succeeds has the backend notify of
\* the session of the signed-in identity, for which the listener makes the
\* holder authenticated as that identity, and resolves to {error: null}.
C13_SignInOutcome ==
  [][ /\ \A i \in Slots :
           ops[i].kind = "signIn" =>
             /\ ops[i].pc = "remote" /\ ops'[i].kind = "idle"
                  => /\ ret'.op = "signIn"
                     /\ ret'.error # Null
                     /\ ret'.data.tag # "thrown"
                     /\ UNCHANGED <<user, session, isLoading, events>>
             /\ ops[i].pc = "remote" /\ ops'[i].kind # "idle" /\ ops'[i].pc # "remote"
                  => events' = Append(events, Notification("SIGNED_IN", SessionOf(ops[i].arg)))
             /\ ops[i].pc = "profile" /\ ops'[i].kind = "idle"
                  => /\ ret'.op = "signIn"
                     /\ ret'.error = Null
                     /\ ret'.data.tag # "thrown"
      /\ Notified /\ Head(events).event = "SIGNED_IN"
           => user' = Head(events).session.user /\ user' # NoUser /\ ~isLoading'
    ]_vars

\* a signIn failed and the holder is still unauthenticated
C13_Witness ==
  /\ ret.op = "signIn"
  /\ ret.error # Null
  /\ ~isLoading
  /\ user = NoUser
  /\ session = NoSession

\* C14: whenever the listener runs for a notification, whatever calls are in
\* progress, the session becomes the notified session, the user becomes the
\* user of that session (null if the session is null), and isLoading is false.
C14_NotificationTakenOver ==
  [][ Notified
        => /\ session' = Head(events).session
           /\ user' = Head(events).session.user
           /\ isLoading' = FALSE ]_vars

\* the notification of a sign-in was taken over while the signIn call is
\* still in progress
C14_Witness ==
  \E i \in Slots :
    /\ ops[i].kind = "signIn"
    /\ ops[i].pc = "profile"
    /\ session = SessionOf(ops[i].arg)
    /\ user = ops[i].arg
    /\ ~isLoading

\* ------------------------------------------------------------- SpecStore
\* the OfflineProvider with its settings, over a storage that may hold a
\* CACHE_DATA item that is no JSON
Corrupted(st) == [st EXCEPT !.hasData = TRUE, !.parses = FALSE]

FontSizes == {8, 40}
SettingsPatches == {[theme |-> "dark"], [fontSize |-> 8, autoSync |-> FALSE]}
SongsOnly == Partial({"songs"}, [EmptyLists EXCEPT !.songs = SongsByNumber(SongsTable)])

InitStore ==
  \E st \in {EmptyStorage, Snapshot(SongsTable, SeedFavourites, SeedFolders),
              Corrupted(EmptyStorage)} :
    InitWith("u1", st, Backend(SongsTable, SeedFavourites, SeedFolders), MaxStoreCalls)

NextStore ==
  \/ \E out \in {"ok", "failData"} : UpdateCacheCall(SongsOnly, out)
  \/ \E i \in Slots : UpdateCacheSettled(i)
  \/ \E out \in {"ok", "fail"} : ClearCacheCall(out)
  \/ \E i \in Slots : ClearCacheSettled(i)
  \/ \E newSettings \in SettingsPatches, out \in {"ok", "fail"} :
       updateSettings("updateSettings", newSettings, out)
  \/ \E out \in {"ok", "fail"} : toggleTheme(out)
  \/ \E size \in FontSizes, out \in {"ok", "fail"} : updateFontSize(size, out)
  \/ \E i \in Slots : UpdateSettingsSettled(i)
  \/ \E i \in Slots : LoadSettled(i)
  \/ \E u \in {NoUser, "u1"} : AuthStateChange(u)

SpecStore == InitStore /\ [][NextStore]_vars

\* the calls of the OfflineProvider that write to the storage
DataCalls == {"updateCache", "clearCache"}
StoreCalls == DataCalls \cup SettingsCalls

\* the call in slot i returns to its caller in this step
Returns(i) == ops[i].kind # "idle" /\ ops'[i].kind = "idle"

\* C15: when loadCachedData finishes, nothing else being in flight and the
\* storage being what it read, the lists are those of the persisted snapshot
\* if there is one that parses, and else are empty; the load throws nothing.
C15_LoadExposesSnapshotOrDefault ==
  [][ \A i \in Slots :
        /\ ops[i].kind = "load"
        /\ Returns(i)
        /\ \A j \in Slots \ {i} : ops[j].kind = "idle"
        /\ ops[i].val = storage
        => /\ Lists' = IF storage.hasData /\ storage.parses THEN storage.data ELSE EmptyLists
           /\ ret' = ret
    ]_vars

\* an updateCache changed the lists but could not persist them, the user
\* changed, and the load that followed left the lists as they were
C15_Witness ==
  /\ ret.op = "updateCache"
  /\ ret.data.tag = "thrown"
  /\ user = NoUser
  /\ \A i \in Slots : ops[i].kind = "idle"
  /\ ~storage.hasData
  /\ cachedSongs # <<>>

\* C16: an updateCache, clearCache, updateSettings, toggleTheme or
\* updateFontSize whose write to the storage failed is rejected with the
\* error of the storage: its caller never sees it resolve.
C16_StorageErrorPropagates ==
  [][ \A i \in Slots :
        ops[i].kind \in StoreCalls /\ ops[i].out # "ok" /\ Returns(i)
        => /\ ret'.op = ops[i].kind
           /\ ret'.id = ops[i].id
           /\ ret'.data.tag = "thrown"
           /\ ret'.error = StorageError
    ]_vars

\* an updateCache was rejected because the snapshot could not be written
C16_Witness ==
  /\ ret.op = "updateCache"
  /\ ret.data.tag = "thrown"
  /\ ret.error = StorageError
  /\ ~storage.hasData

\* the items of the storage that hold data, and the one that holds preferences
DataItems(st) ==
  [hasData |-> st.hasData, data |-> st.data, lastUpdated |-> st.lastUpdated,
   parses |-> st.parses, hasSync |-> st.hasSync, lastSync |-> st.lastSync]
SettingsItem(st) == [hasSettings |-> st.hasSettings, settings |-> st.settings]

\* a call of one of the kinds starts or returns in this step
StepOf(kinds) == \E i \in Slots : (ops[i].kind \in kinds) # (ops'[i].kind \in kinds)

\* C17: no step of updateSettings, toggleTheme or updateFontSize changes the
\* persisted snapshot, the persisted or in-memory last-sync time or the
\* in-memory lists, and no step of updateCache or clearCache changes the
\* persisted or in-memory preferences.
C17_PreferencesAndDataIndependent ==
  [][ /\ StepOf(SettingsCalls)
           => /\ DataItems(storage') = DataItems(storage)
              /\ UNCHANGED <<cachedSongs, cachedFavourites, cachedFolders, lastSync>>
      /\ StepOf(DataCalls)
           => /\ SettingsItem(storage') = SettingsItem(storage)
              /\ settings' = settings
    ]_vars

\* the cache was cleared and the preferences set before are still there
C17_Witness ==
  /\ ret.op = "clearCache"
  /\ ret.data.tag # "thrown"
  /\ ~storage.hasData
  /\ storage.hasSettings
  /\ storage.settings.theme = "dark"
  /\ settings.theme = "dark"

\* ------------------------------------------------------------ SpecRemote
\* every operation of useSupabase, called by a signed-in user over a cache
\* that an earlier run persisted, against a backend that may fail
AccessorCalls ==
  {"fetchSongs", "getSong", "searchSongs", "fetchFavourites", "addFavourite",
   "removeFavourite", "fetchFolders", "createFolder", "updateFolder", "deleteFolder",
   "addSongToFolder", "removeSongFromFolder", "getFolderSongs", "getFolderSongCount",
   "syncAllData"}

InitRemote ==
  InitWith("u1", Snapshot(SongsTable, SeedFavourites, SeedFolders),
           Backend(SongsTable, SeedFavourites, SeedFolders), MaxRemoteCalls)

NextRemote ==
  \/ fetchSongs
  \/ \E i \in Slots, r \in RemoteOutcomes : fetchSongsResponse(i, r, "ok")
  \/ \E id \in {1, 9} : getSong(id)
  \/ \E i \in Slots, r \in RemoteOutcomes : getSongResponse(i, r)
  \/ searchSongs(<<"a">>)
  \/ \E i \in Slots, r \in RemoteOutcomes : searchSongsResponse(i, r)
  \/ fetchFavourites
  \/ \E i \in Slots, r \in RemoteOutcomes : fetchFavouritesResponse(i, r, "ok")
  \/ \E songId \in SongIds : addFavourite(songId)
  \/ \E i \in Slots, r \in RemoteOutcomes : addFavouriteResponse(i, r, "ok")
  \/ removeFavourite(1)
  \/ \E i \in Slots, r \in RemoteOutcomes : removeFavouriteResponse(i, r, "ok")
  \/ fetchFolders
  \/ \E i \in Slots, r \in RemoteOutcomes : fetchFoldersResponse(i, r, "ok")
  \/ \E name \in {"A", "B"} : createFolder(name)
  \/ \E i \in Slots, r \in RemoteOutcomes : createFolderResponse(i, r)
  \/ updateFolder(101, "B")
  \/ \E i \in Slots, r \in RemoteOutcomes : updateFolderResponse(i, r)
  \/ deleteFolder(101)
  \/ \E i \in Slots, r \in RemoteOutcomes : deleteFolderResponse(i, r)
  \/ \E i \in Slots : FolderMutationResume(i)
  \/ \E songId \in SongIds : addSongToFolder(songId, 101)
  \/ \E i \in Slots, r \in RemoteOutcomes : addSongToFolderResponse(i, r)
  \/ removeSongFromFolder(1, 101)
  \/ \E i \in Slots, r \in RemoteOutcomes : removeSongFromFolderResponse(i, r)
  \/ getFolderSongs(101)
  \/ \E i \in Slots, r \in RemoteOutcomes : getFolderSongsResponse(i, r)
  \/ getFolderSongCount(101)
  \/ \E i \in Slots, r \in RemoteOutcomes : getFolderSongCountResponse(i, r)
  \/ syncAllData
  \/ \E i \in Slots : syncAllDataJoin(i)
  \/ \E i \in Slots : CacheWriteSettled(i)
  \/ \E i \in Slots : LoadSettled(i)

SpecRemote == InitRemote /\ [][NextRemote]_vars

\* a request to the backend failed in this step
RequestFailed == g'.failed.id # g.failed.id \/ g'.failed.kind # g.failed.kind

\* the requests that are with the backend
InRequest(o) == {[id |-> o[i].id, kind |-> o[i].kind] : i \in {j \in Slots : o[j].kind # "idle" /\ o[j].pc = "remote"}}

\* C18: when the request of an operation of useSupabase fails, the operation
\* returns an error string that is neither null nor empty, the error state of
\* the hook holds that string, no request is sent in its place, and the lists
\* of the cache, its last-sync time and the storage are what they were.
C18_RemoteFailureSurfaced ==
  [][ RequestFailed
        => /\ Truthy(g'.failed.error)
           /\ error' = g'.failed.error
           /\ InRequest(ops') = InRequest(ops) \ {[id |-> g'.failed.id, kind |-> g'.failed.kind]}
           /\ UNCHANGED <<cachedSongs, cachedFavourites, cachedFolders, lastSync, storage>>
    ]_vars

\* the request of getFolderSongCount failed and the call returned 0, with no
\* error returned and none in the error state
C18_Witness ==
  /\ g.failed.kind = "getFolderSongCount"
  /\ ret.op = "getFolderSongCount"
  /\ ret.data = DNum(0)
  /\ ret.error = Null
  /\ error = Null

\* the cached collection a fetch would fall back on
CachedCollection(kind) ==
  IF kind = "fetchSongs" THEN getSongs
  ELSE IF kind = "fetchFavourites" THEN getFavourites
  ELSE getFolders

\* C19: when the request of fetchSongs, fetchFavourites or fetchFolders
\* fails, the call returns the cached rows of that collection as its data.
C19_FetchFallsBackOnCache ==
  [][ RequestFailed /\ g'.failed.kind \in {"fetchSongs", "fetchFavourites", "fetchFolders"}
        => /\ g'.failed.data.tag = "list"
           /\ g'.failed.data.v = CachedCollection(g'.failed.kind)
    ]_vars

\* the request of fetchSongs failed while the cache held songs, and the call
\* returned no data
C19_Witness ==
  /\ g.failed.kind = "fetchSongs"
  /\ ret.op = "fetchSongs"
  /\ ret.data = DNull
  /\ ret.error # Null
  /\ cachedSongs # <<>>

\* C20: whatever the backend answers, no call of the remote accessor and no
\* call of the auth holder ends with an exception thrown to its caller.
C20_NoExceptionEscapes ==
  ret.op \in HolderCalls \cup AccessorCalls => ret.data.tag # "thrown"

\* the backend answered signOut with an error and signOut threw it
C20_Witness ==
  /\ ret.op = "signOut"
  /\ ret.data.tag = "thrown"
  /\ ret.error = AuthErrorMessage("error")

\* ----------------------------------------------------------- SpecSignOut
\* a signed-in user on a fresh install synchronises, signs out and may clear
\* the cache; every request and every write succeeds
InitSignOut ==
  InitWith("u1", EmptyStorage, Backend(SongsTable, SeedFavourites, SeedFolders),
           MaxSignOutCalls)

NextSignOut ==
  \/ syncAllData
  \/ \E i \in Slots : fetchSongsResponse(i, "ok", "ok")
  \/ \E i \in Slots : fetchFavouritesResponse(i, "ok", "ok")
  \/ \E i \in Slots : fetchFoldersResponse(i, "ok", "ok")
  \/ \E i \in Slots : CacheWriteSettled(i)
  \/ \E i \in Slots : syncAllDataJoin(i)
  \/ signOut
  \/ \E i \in Slots : signOutResponse(i, "ok")
  \/ \E i \in Slots : signOutDone(i)
  \/ \E reload \in BOOLEAN : onAuthStateChange(reload)
  \/ ClearCacheCall("ok")
  \/ \E i \in Slots : ClearCacheSettled(i)
  \/ \E i \in Slots : LoadSettled(i)

SpecSignOut == InitSignOut /\ [][NextSignOut]_vars

\* the rows of users in the lists of a snapshot
UserRows(lists) == Range(lists.favourites) \cup Range(lists.folders)

\* C11: when the listener runs for the notification of a sign-out, the holder
\* becomes unauthenticated, getFavourites() and getFolders() return nothing,
\* and the lists of the cache and the storage are left alone; and while nobody
\* is signed in, no step that is not one of clearCache takes a row of a user
\* out of the cache or out of the persisted snapshot.
C11_SignedOutRowsRemain ==
  [][ /\ Notified /\ Head(events).session = NoSession /\ user # NoUser
           => /\ user' = NoUser
              /\ session' = NoSession
              /\ getFavourites' = <<>>
              /\ getFolders' = <<>>
              /\ UNCHANGED <<cachedSongs, cachedFavourites, cachedFolders, storage>>
      /\ user = NoUser /\ user' = NoUser /\ ~StepOf({"clearCache"})
           => /\ UserRows(Lists) \subseteq UserRows(Lists')
              /\ UserRows(storage.data) \subseteq UserRows(storage'.data)
    ]_vars

\* the favourites of u1 were fetched and cached, u1 signed out, all calls
\* returned, clearCache was never called, and the cache holds no favourite
C11_Witness ==
  /\ user = NoUser
  /\ ret.op = "signOut"
  /\ budget = 0
  /\ \A i \in Slots : ops[i].kind = "idle"
  /\ g.sync.fetchFavourites.error = Null
  /\ g.sync.fetchFavourites.data.v # <<>>
  /\ cachedFavourites = <<>>
\* ---------------------------------------------------- the backend's tables
\* The accessor of user u1 inserting and deleting favourites and links, with
\* several requests in flight at once.
TableFolders == SeedFolders \cup {Folder(103, "u1", "B")}
TableLinks == SeedSongFolders \cup {SongFolder(102, 1, 102)}
FolderIds == {101, 102}

\* the state once the mount effect's loadCachedData (lines 453-484) has
\* settled, the device holding the items st
InitLoaded(u, st, rem, n) ==
  /\ user = u
  /\ session = SessionOf(u)
  /\ isLoading = FALSE
  /\ events = <<>>
  /\ isAppReady = TRUE
  /\ settings = DEFAULT_SETTINGS
  /\ cachedSongs = st.data.songs
  /\ cachedFavourites = st.data.favourites
  /\ cachedFolders = st.data.folders
  /\ lastSync = st.lastSync
  /\ loading = FALSE
  /\ error = Null
  /\ storage = st
  /\ now = 1
  /\ remote = rem
  /\ searchQuery = <<>>
  /\ allSongs = <<>>
  /\ ops = [i \in Slots |-> Idle]
  /\ ret = NoReturn
  /\ budget = n
  /\ g = IF st.hasSync
           THEN [NoHistory EXCEPT !.lastEv = "load", !.evAt = 1, !.expect = st.data]
           ELSE NoHistory

\* the items an earlier sync of user u left on the device
SyncedStorage(u, rem) ==
  Snapshot(rem.songs, RowsOf(rem.favourites, u), RowsOf(rem.folders, u))

InitTables ==
  LET rem == [Backend(SongsTable, SeedFavourites, TableFolders)
                EXCEPT !.songFolders = TableLinks]
  IN InitLoaded("u1", SyncedStorage("u1", rem), rem, MaxTableCalls)

NextTables ==
  \/ \E songId \in SongIds : addFavourite(songId)
  \/ \E i \in Slots : addFavouriteResponse(i, "ok", "ok")
  \/ \E songId \in SongIds : removeFavourite(songId)
  \/ \E i \in Slots : removeFavouriteResponse(i, "ok", "ok")
  \/ \E songId \in SongIds : addSongToFolder(songId, 101)
  \/ \E i \in Slots : addSongToFolderResponse(i, "ok")
  \/ \E songId \in SongIds : removeSongFromFolder(songId, 101)
  \/ \E i \in Slots : removeSongFromFolderResponse(i, "ok")
  \/ \E i \in Slots : CacheWriteSettled(i)

SpecTables == InitTables /\ [][NextTables]_vars

\* the request of the call in slot i is answered in this step
Answered(i, kind) ==
  ops[i].kind = kind /\ ops[i].pc = "remote" /\ ops'[i].pc # "remote"

UniquePairs ==
  /\ \A a, b \in remote.favourites :
       a.user_id = b.user_id /\ a.song_id = b.song_id => a.id = b.id
  /\ \A a, b \in remote.songFolders :
       a.folder_id = b.folder_id /\ a.song_id = b.song_id => a.id = b.id

DuplicateRejected ==
  \A i \in Slots :
    /\ Answered(i, "addFavourite") /\ FavouriteTaken(ops[i].cl.user, ops[i].arg)
         => remote' = remote /\ ret'.id = ops[i].id /\ ret'.error = DuplicateKey
    /\ Answered(i, "addSongToFolder")
         /\ (\E l \in remote.songFolders :
                l.song_id = ops[i].arg[1] /\ l.folder_id = ops[i].arg[2])
         => remote' = remote /\ ret'.id = ops[i].id /\ ret'.error # Null

\* C21: the backend never holds two favourites rows of one (user_id, song_id)
\* pair nor two song_folders rows of one (folder_id, song_id) pair, and an
\* insert of a pair that exists, also one racing with another insert of it,
\* is rejected with an error and leaves the tables as they were.
C21_PairsUnique == []UniquePairs /\ [][DuplicateRejected]_vars

\* two overlapping addFavourite calls of one song: the second insert was rejected
C21_Witness ==
  /\ ret.op = "addFavourite"
  /\ ret.error = DuplicateKey
  /\ \E row \in remote.favourites : row.user_id = ret.user /\ row.song_id = ret.arg /\ row.id <= MaxInserts
\* ------------------------------------------------------ row-level security
\* The accessor of user u1 reading and changing rows, those of user u2
\* among its targets; the database was set up from either schema of setup.sql.
InitOwnership ==
  \E unique \in BOOLEAN :
    InitLoaded("u1", EmptyStorage,
               [Backend(SongsTable, SeedFavourites, TableFolders)
                  EXCEPT !.songFolders = TableLinks, !.uniqueFolderNames = unique],
               MaxOwnerCalls)

\* the calls of the UI that have not returned
InFlight == {i \in Slots : ops[i].kind # "idle" /\ ops[i].parent = 0}

NextOwnership ==
  \/ /\ Cardinality(InFlight) < MaxOwnerFlight
     /\ \/ fetchFavourites
        \/ addFavourite(2)
        \/ removeFavourite(1)
        \/ fetchFolders
        \/ createFolder("B")
        \/ \E id \in FolderIds : updateFolder(id, "B")
        \/ \E id \in FolderIds : deleteFolder(id)
        \/ \E folderId \in FolderIds : addSongToFolder(2, folderId)
        \/ \E folderId \in FolderIds : removeSongFromFolder(1, folderId)
        \/ \E folderId \in FolderIds : getFolderSongs(folderId)
        \/ \E folderId \in FolderIds : getFolderSongCount(folderId)
  \/ \E i \in Slots : fetchFavouritesResponse(i, "ok", "ok")
  \/ \E i \in Slots : addFavouriteResponse(i, "ok", "ok")
  \/ \E i \in Slots : removeFavouriteResponse(i, "ok", "ok")
  \/ \E i \in Slots : fetchFoldersResponse(i, "ok", "ok")
  \/ \E i \in Slots : createFolderResponse(i, "ok")
  \/ \E i \in Slots : updateFolderResponse(i, "ok")
  \/ \E i \in Slots : deleteFolderResponse(i, "ok")
  \/ \E i \in Slots : FolderMutationResume(i)
  \/ \E i \in Slots : addSongToFolderResponse(i, "ok")
  \/ \E i \in Slots : removeSongFromFolderResponse(i, "ok")
  \/ \E i \in Slots : getFolderSongsResponse(i, "ok")
  \/ \E i \in Slots : getFolderSongCountResponse(i, "ok")
  \/ \E i \in Slots : CacheWriteSettled(i)

SpecOwnership == InitOwnership /\ [][NextOwnership]_vars

\* the rows of the tables that user u does not own
OthersRows(rem, u) ==
  [favourites |-> {row \in rem.favourites : row.user_id # u},
   folders |-> {row \in rem.folders : row.user_id # u},
   songFolders |-> {l \in rem.songFolders :
                      \E row \in rem.folders : row.id = l.folder_id /\ row.user_id # u}]

\* the folder belongs to another user than u (folders never change owner)
ForeignFolder(u, folderId) ==
  \E row \in remote.folders : row.id = folderId /\ row.user_id # u

\* what the last call returned holds rows of its user only
ReturnsOwnRows ==
  /\ ret.op \in {"fetchFavourites", "fetchFolders"} /\ ret.data.tag = "list"
       => \A k \in 1..Len(ret.data.v) : ret.data.v[k].user_id = ret.user
  /\ ret.op \in {"addFavourite", "createFolder", "updateFolder"} /\ ret.data.tag = "row"
       => ret.data.v[1].user_id = ret.user
  /\ ret.op = "addSongToFolder" /\ ret.data.tag = "row"
       => ~ForeignFolder(ret.user, ret.data.v[1].folder_id)
  /\ ret.op = "getFolderSongs" /\ ForeignFolder(ret.user, ret.arg) => Len(ret.data.v) = 0
  /\ ret.op = "getFolderSongCount" /\ ForeignFolder(ret.user, ret.arg) => ret.data.v[1] = 0

\* C22: whatever user u1 requests, the rows of favourites and folders owned
\* by another user and the links of another user's folders stay as they
\* are, and what a call returns holds no row and no link of another user.
C22_OwnRowsOnly ==
  []ReturnsOwnRows /\ [][OthersRows(remote', "u1") = OthersRows(remote, "u1")]_vars

\* u1 asked to take song 1 out of u2's folder: the call returned true and the
\* link is still there
C22_Witness ==
  /\ ret.op = "removeSongFromFolder"
  /\ ret.arg[2] = 102
  /\ ret.error = Null
  /\ SongFolder(102, 1, 102) \in remote.songFolders
UniqueFolderNames ==
  \A a, b \in remote.folders : a.user_id = b.user_id /\ a.name = b.name => a.id = b.id

\* a create or rename that asks for a name another folder of the user has
DuplicateNameRejected ==
  \A i \in Slots :
    /\ Answered(i, "createFolder")
         /\ (\E row \in remote.folders :
                row.user_id = ops[i].cl.user /\ row.name = TrimName(ops[i].arg))
         => /\ remote'.folders = remote.folders
            /\ cachedFolders' = cachedFolders
            /\ ret'.id = ops[i].id /\ ret'.error # Null
    /\ Answered(i, "updateFolder")
         /\ (\E row \in remote.folders :
                /\ row.user_id = ops[i].cl.user
                /\ row.name = TrimName(ops[i].arg[2])
                /\ row.id # ops[i].arg[1])
         => /\ remote'.folders = remote.folders
            /\ cachedFolders' = cachedFolders
            /\ ret'.id = ops[i].id /\ ret'.error # Null

\* C23: no user owns two folders of one name, and a createFolder or a rename
\* that asks for a name another folder of the same user has fails with an
\* error and changes neither the remote folders nor the cached ones.
C23_FolderNamesUnique == []UniqueFolderNames /\ [][DuplicateNameRejected]_vars

\* under the schema with folders_user_name_unique the second folder "B" of
\* u1 was refused
C23_Witness ==
  /\ ret.op = "createFolder"
  /\ ret.error = DuplicateKey
  /\ remote.uniqueFolderNames
  /\ UniqueFolderNames
\* ------------------------------------------------ re-fetch after a mutation
\* the folder mutation in slot i returns success in this step
MutationReturns(i) ==
  /\ ops[i].kind \in FolderMutations
  /\ ops[i].pc = "resume"
  /\ ops'[i].pc # "resume"
  /\ ret'.id = ops[i].id
  /\ ret'.error = Null

\* C24: when createFolder, updateFolder or deleteFolder returns success, its
\* re-fetch has made the cached folder list equal to the folders of the
\* current user in the backend, in the order of their names.
C24_RefetchedWhenReturned ==
  [][\A i \in Slots :
       MutationReturns(i) => cachedFolders' = FoldersByName(RowsOf(remote'.folders, user'))]_vars

\* createFolder returned its row and the cached list is the remote list
C24_Witness ==
  /\ ret.op = "createFolder"
  /\ ret.error = Null
  /\ ret.data.tag = "row"
  /\ cachedFolders = FoldersByName(RowsOf(remote.folders, user))
  /\ \E k \in 1..Len(cachedFolders) : cachedFolders[k].id = ret.data.v[1].id
\* ------------------------------------------- favourites kept in the cache
\* a call of kind op returns success in this step
ReturnsSuccess(op) == ret'.id # ret.id /\ ret'.op = op /\ ret'.error = Null

\* the cached favourites after the step, and isFavourite after the step
CachedAfter == Range(cachedFavourites')
IsFavouriteAfter(songId) ==
  user' # NoUser /\ \E row \in CachedAfter : row.song_id = songId /\ row.user_id = user'

FavouriteReflected ==
  /\ ReturnsSuccess("addFavourite")
       => /\ ret'.data.tag = "row"
          /\ ret'.data.v[1] \in CachedAfter
          /\ IsFavouriteAfter(ret'.arg)
  /\ ReturnsSuccess("removeFavourite")
       => /\ \A row \in CachedAfter : ~(row.user_id = ret'.user /\ row.song_id = ret'.arg)
          /\ ~IsFavouriteAfter(ret'.arg)

\* the step in which a mutation writes the cache keeps every other row
OtherFavouritesKept ==
  \A i \in Slots :
    /\ Answered(i, "addFavourite") /\ ops'[i].pc = "storage"
         => \A row \in Range(cachedFavourites) \cup CachedAfter :
              row # ops'[i].val.v[1] => (row \in Range(cachedFavourites) <=> row \in CachedAfter)
    /\ Answered(i, "removeFavourite") /\ ops'[i].pc = "storage"
         => \A row \in Range(cachedFavourites) \cup CachedAfter :
              ~(row.user_id = ops[i].cl.user /\ row.song_id = ops[i].arg)
                => (row \in Range(cachedFavourites) <=> row \in CachedAfter)

\* C25: when addFavourite(s) returns success the cached favourites hold the
\* returned row and isFavourite(s) is true; when removeFavourite(s) returns
\* success no cached favourite of the user and s is left and isFavourite(s)
\* is false; the cache write of either leaves every other cached row alone.
C25_FavouriteReflected == [][FavouriteReflected /\ OtherFavouritesKept]_vars

\* addFavourite(2) returned its row, which is cached, and the row cached
\* before is still there
C25_Witness ==
  /\ ret.op = "addFavourite"
  /\ ret.error = Null
  /\ ret.data.tag = "row"
  /\ ret.data.v[1] \in Range(cachedFavourites)
  /\ isFavourite(ret.arg)
  /\ Len(cachedFavourites) = 2
\* ---------------------------------------------- what a sync leaves behind
\* the three lists the fetches of the syncAllData call in slot i returned
Fetched(i) ==
  [songs |-> ops[i].val.fetchSongs.data.v,
   favourites |-> ops[i].val.fetchFavourites.data.v,
   folders |-> ops[i].val.fetchFolders.data.v]

\* the syncAllData call in slot i returns success in this step
SyncReturns(i) ==
  /\ ops[i].kind = "syncAllData"
  /\ ops'[i].kind = "idle"
  /\ ret'.id = ops[i].id
  /\ ret'.error = Null

\* C26: when syncAllData returns success, the in-memory cache and the
\* persisted snapshot both hold the songs, the favourites and the folders
\* that this sync fetched.
C26_SyncKeepsAllThree ==
  [][\A i \in Slots :
       SyncReturns(i)
         => /\ [songs |-> cachedSongs', favourites |-> cachedFavourites',
                folders |-> cachedFolders'] = Fetched(i)
            /\ storage'.hasData
            /\ storage'.data = Fetched(i)]_vars

\* a sync of user u1 returned success and the in-memory cache holds the three
\* fetched lists, none of them empty
C26_Witness ==
  /\ ret.op = "syncAllData"
  /\ ret.error = Null
  /\ user = "u1"
  /\ cachedSongs = g.sync.fetchSongs.data.v
  /\ cachedFavourites = g.sync.fetchFavourites.data.v
  /\ cachedFolders = g.sync.fetchFolders.data.v
  /\ cachedSongs # <<>> /\ cachedFavourites # <<>> /\ cachedFolders # <<>>
\* ------------------------------------------ overlapping favourite mutations
\* no call is in flight
Quiet == \A i \in Slots : ops[i].kind = "idle"

\* C27: once two favourite mutations that both succeeded at the backend
\* have completed (in SpecTables only they write the cache, and two that did
\* not overlap or that concern one song leave the cache exact), the cached
\* favourites of the user are the user's favourites at the backend.
C27_NoFavouriteLost ==
  Quiet /\ g.nUpd = 2 /\ ret.op \in {"addFavourite", "removeFavourite"}
    => Range(getFavourites) = RowsOf(remote.favourites, user)

\* addFavourite(2) and removeFavourite(1) have both succeeded and completed,
\* and the cache is exact: the second was called after the first was answered
C27_Witness ==
  /\ Quiet
  /\ g.nUpd = 2
  /\ RowsOf(remote.favourites, "u1") = {Favourite(1, "u1", 2)}
  /\ Range(getFavourites) = {Favourite(1, "u1", 2)}
\* ------------------------------------- initial session check and listener
\* C28: the holder leaves authenticating only through a report, so when the
\* initial getSession resolves in a state that is not authenticating, a
\* notification was delivered before; the session and the user it set are
\* then not replaced by the result of the initial check.
C28_InitialCheckKeepsNewer ==
  [][InitialSessionReported /\ ~isLoading => UNCHANGED <<session, user>>]_vars

\* the initial check resolved after the listener had run, both reporting the
\* persisted session of u1
C28_Witness ==
  /\ ret.op = "getSession"
  /\ ret.data.tag # "thrown"
  /\ events = <<>>
  /\ budget = MaxAuthCalls
  /\ user = "u1"
  /\ session = SessionOf("u1")
  /\ ~isLoading

\* ------------------------------------------------- what the app renders
\* AppWrapper, the effect of lines 82-106: once the auth state is known the
\* one-second timer fires and the app is ready
AppReady ==
  /\ ~isLoading
  /\ ~isAppReady
  /\ isAppReady' = TRUE
  /\ UNCHANGED <<user, session, isLoading, events, settings, cacheVars, hookVars, storage, now,
                 remote, screenVars, ops, ret, budget, g>>

\* a navigation root that shows the protected navigator to anyone once the
\* auth state is known
NavigationForAnyone ==
  IF isLoading THEN "View" ELSE "MainNavigator"

\* NavigationWithAuth: an empty view while the auth state is loading, then the
\* protected navigator for a user and the login/signup navigator without one
NavigationWithAuth ==
  IF isLoading THEN "View"
  ELSE IF user # NoUser THEN "MainNavigator" ELSE "AuthNavigator"

\* AppWrapper, lines 109-114: the loading screen until the app is ready and the
\* auth state known, then the content with the navigation root
AppWrapper ==
  IF ~isAppReady \/ isLoading THEN "LoadingScreen" ELSE NavigationWithAuth

LoadingViews == {"LoadingScreen", "View"}

NextNav ==
  \/ AppReady
  \/ \E i \in Slots, r \in {"ok", "throw"}, reload \in BOOLEAN : getSessionResolved(i, r, reload)
  \/ \E reload \in BOOLEAN : onAuthStateChange(reload)
  \/ \E e \in BackendEvents : BackendEvent(e)
  \/ \E u \in Users : signIn(u)
  \/ \E i \in Slots, r \in RemoteOutcomes : signInResponse(i, r)
  \/ \E i \in Slots, r \in RemoteOutcomes : ProfileResponse(i, r)
  \/ signOut
  \/ \E i \in Slots, r \in RemoteOutcomes : signOutResponse(i, r)
  \/ \E i \in Slots : signOutDone(i)
  \/ \E i \in Slots : LoadSettled(i)

SpecNav == InitAuth /\ [][NextNav]_vars

\* C29 as stated: the protected navigator is rendered only for a user once the
\* auth state is known, only a loading view is rendered while it is loading,
\* and without a user the login/signup navigator is what is rendered
C29_RoutedByAuthState ==
  /\ AppWrapper = "MainNavigator" => user # NoUser /\ ~isLoading
  /\ isLoading => AppWrapper \in LoadingViews
  /\ ~isLoading /\ user = NoUser => AppWrapper = "AuthNavigator"

\* C29, amended: the protected navigator is rendered only for a user once the
\* auth state is known; while the auth state is loading, and afterwards until
\* the app is ready, only the loading screen is rendered; once the app is
\* ready the auth state is known and the view is the protected navigator for a
\* user and the login/signup navigator without one
C29_RoutedOnceReady ==
  /\ AppWrapper = "MainNavigator" => user # NoUser /\ ~isLoading
  /\ isLoading \/ ~isAppReady => AppWrapper = "LoadingScreen"
  /\ isAppReady => AppWrapper = (IF user # NoUser THEN "MainNavigator" ELSE "AuthNavigator")

\* the app is ready and shows the protected navigator to a signed-in user
C29_Witness ==
  isAppReady /\ user # NoUser /\ AppWrapper = "MainNavigator"

\* ------------------------------------------------- the accessor's loading flag
\* the calls of the remote accessor that have not returned yet
AccessorInFlight == {i \in Slots : ops[i].kind \in AccessorCalls}

\* C30: the loading flag of the remote accessor is true exactly while one of
\* its operations is in flight; during syncAllData it stays true until
\* syncAllData itself has returned
C30_LoadingWhileInFlight ==
  loading <=> AccessorInFlight # {}

\* syncAllData and two of its fetches are still in flight, the first fetch has
\* returned, and the flag is down
C30_Witness ==
  /\ ~loading
  /\ \E i \in Slots : ops[i].kind = "syncAllData"
  /\ Cardinality(AccessorInFlight) = 3

====
